---- MODULE Spec2Model ----
(***************************************************************************)
(* Kinematics engine of Angular9-Kinematics: Bone, Chain, the iterative    *)
(* solver ccdBasic and the two-bone limbSolver.                            *)
(*                                                                         *)
(* Numbers.  The TypeScript code computes in IEEE doubles.  Here every     *)
(* coordinate and length is an integer number of pixels and every angle an *)
(* integer number of degrees (TWO_PI = 360).  Math.cos / Math.sin are a    *)
(* table scaled by TrigScale, Math.atan2 / Math.acos / Math.sqrt return    *)
(* the nearest representable value.  A product with a cosine or sine is    *)
(* rounded to the nearest integer.  Rotations by multiples of 90 degrees   *)
(* are exact; every other result is within Tol of the real value.          *)
(***************************************************************************)
EXTENDS Integers, Sequences, FiniteSets, TLC

\* ------------------------------------------------------------------------
\* Arithmetic
\* ------------------------------------------------------------------------

\* Math.PI + Math.PI, in degrees
TWO_PI == 360

PI == TWO_PI \div 2

\* sin(k degrees) * 10000 for k = 0..90, at SinTable[k+1]
SinTable == <<
  0, 175, 349, 523, 698, 872, 1045, 1219, 1392, 1564,
  1736, 1908, 2079, 2250, 2419, 2588, 2756, 2924, 3090, 3256,
  3420, 3584, 3746, 3907, 4067, 4226, 4384, 4540, 4695, 4848,
  5000, 5150, 5299, 5446, 5592, 5736, 5878, 6018, 6157, 6293,
  6428, 6561, 6691, 6820, 6947, 7071, 7193, 7314, 7431, 7547,
  7660, 7771, 7880, 7986, 8090, 8192, 8290, 8387, 8480, 8572,
  8660, 8746, 8829, 8910, 8988, 9063, 9135, 9205, 9272, 9336,
  9397, 9455, 9511, 9563, 9613, 9659, 9703, 9744, 9781, 9816,
  9848, 9877, 9903, 9925, 9945, 9962, 9976, 9986, 9994, 9998,
  10000 >>

\* the value that stands for 1.0 in a cosine or sine
TrigScale == SinTable[Len(SinTable)]

Abs(a) == IF a < 0 THEN -a ELSE a

Max(a, b) == IF a >= b THEN a ELSE b

Min(a, b) == IF a <= b THEN a ELSE b

\* a / b rounded to the nearest integer, b > 0
Round(a, b) == (2 * a + b) \div (2 * b)

\* v * t where t is a cosine or sine
MulT(v, t) == Round(v * t, TrigScale)

\* Math.sin
Sin(a) ==
  LET d == a % TWO_PI
  IN  IF d <= 90 THEN SinTable[d + 1]
      ELSE IF d <= 180 THEN SinTable[180 - d + 1]
      ELSE IF d <= 270 THEN -SinTable[d - 180 + 1]
      ELSE -SinTable[360 - d + 1]

\* Math.cos
Cos(a) == Sin(a + 90)

RECURSIVE SqrtSearch(_, _, _)
SqrtSearch(n, lo, hi) ==
  IF lo >= hi THEN lo
  ELSE LET mid == (lo + hi + 1) \div 2
       IN  IF mid * mid <= n THEN SqrtSearch(n, mid, hi)
           ELSE SqrtSearch(n, lo, mid - 1)

\* Math.sqrt, to the nearest integer
Sqrt(n) ==
  LET f == SqrtSearch(n, 0, 2048)
  IN  IF n - f * f > f THEN f + 1 ELSE f

\* largest operand Atan2 multiplies with a table entry
AtanBig == 10 * TrigScale

RECURSIVE Shrink(_, _)
Shrink(ax, ay) ==
  IF ax > AtanBig \/ ay > AtanBig
  THEN Shrink(ax \div 10, ay \div 10)
  ELSE <<ax, ay>>

RECURSIVE AtanSearch(_, _, _, _)
AtanSearch(ax, ay, lo, hi) ==
  IF lo >= hi THEN lo
  ELSE LET mid == (lo + hi) \div 2
           f(k) == ax * Cos(k) + ay * Sin(k)
       IN  IF f(mid) < f(mid + 1)
           THEN AtanSearch(ax, ay, mid + 1, hi)
           ELSE AtanSearch(ax, ay, lo, mid)

\* Math.atan2(y, x), in -180..180, atan2(0, 0) = 0
Atan2(y, x) ==
  LET p == Shrink(Abs(x), Abs(y))
      a == IF x = 0 /\ y = 0 THEN 0 ELSE AtanSearch(p[1], p[2], 0, 90)
  IN  IF x >= 0 /\ y >= 0 THEN a
      ELSE IF x < 0 /\ y >= 0 THEN 180 - a
      ELSE IF x < 0 THEN a - 180
      ELSE -a

RECURSIVE AcosSearch(_, _, _)
AcosSearch(c, lo, hi) ==
  IF lo >= hi THEN lo
  ELSE LET mid == (lo + hi) \div 2
       IN  IF Cos(mid) <= c THEN AcosSearch(c, lo, mid)
           ELSE AcosSearch(c, mid + 1, hi)

\* Math.acos(c / TrigScale), in 0..180, for -TrigScale <= c <= TrigScale
Acos(c) ==
  LET a == AcosSearch(c, 0, 180)
  IN  IF a > 0 /\ Cos(a - 1) - c < c - Cos(a) THEN a - 1 ELSE a

\* ------------------------------------------------------------------------
\* Bone (bone.ts, base-bone.ts).  A bone is a record of the fields the
\* engine reads and writes.  linkedTo is "none" or "hand".
\* ------------------------------------------------------------------------

FK_NONE == "FK_N"

FK_MOVE == "FK_M"

FK_ROTATE == "FK_R"

\* BaseBone constructor + Bone.init
NewBone ==
  [ x0 |-> 0, y0 |-> 0, x1 |-> 0, y1 |-> 0, deltaX |-> 0, deltaY |-> 0,
    length |-> 0, angle |-> 0, lowerLimit |-> -TWO_PI, upperLimit |-> TWO_PI,
    unconstrained |-> TRUE, fk |-> FK_NONE, drawing |-> FALSE,
    linkedTo |-> "none", linkedFrom |-> "none" ]

\* Bone.orientation / Bone.endOrientation (getter)
orientation(b) == IF b.angle >= 0 THEN b.angle ELSE TWO_PI + b.angle

\* BaseBone.lowerLimit (setter)
setLowerLimit(b, r) ==
  [b EXCEPT !.lowerLimit = r,
            !.unconstrained = (r = -TWO_PI) /\ (b.upperLimit = TWO_PI)]

\* BaseBone.upperLimit (setter)
setUpperLimit(b, r) ==
  [b EXCEPT !.upperLimit = r,
            !.unconstrained = (b.lowerLimit = -TWO_PI) /\ (r = TWO_PI)]

\* Bone.setInitial
setInitial(b, cX, cY, updateLength) ==
  IF updateLength
  THEN [b EXCEPT !.x0 = cX, !.y0 = cY,
                 !.deltaX = b.x1 - cX, !.deltaY = b.y1 - cY,
                 !.length = Sqrt((b.x1 - cX) * (b.x1 - cX) + (b.y1 - cY) * (b.y1 - cY))]
  ELSE [b EXCEPT !.x0 = cX, !.y0 = cY]

\* Bone.setTerminal
setTerminal(b, cX, cY) ==
  IF b.drawing THEN b
  ELSE [b EXCEPT !.x1 = cX, !.y1 = cY,
                 !.deltaX = cX - b.x0, !.deltaY = cY - b.y0,
                 !.length = Sqrt((cX - b.x0) * (cX - b.x0) + (cY - b.y0) * (cY - b.y0)),
                 !.angle = Atan2(cY - b.y0, cX - b.x0)]

\* Bone.draw with Bone.__std and Bone.__drawCustom (lines 582-597, 818-908):
\* the fields of the bone they write.  RENDERABLE, the draw type, the skin
\* type and SKIN_ONLY are the public settings at the time of the call
draw(b, renderable, drawType, skinType, skinOnly) ==
  IF b.drawing \/ ~renderable THEN b
  ELSE IF drawType = "standard" /\ (skinType = "none" \/ ~skinOnly)
  THEN [b EXCEPT !.angle = Atan2(b.deltaY, b.deltaX), !.drawing = FALSE]
  ELSE [b EXCEPT !.drawing = TRUE]

\* Bone.__isInLimit
isInLimit(lower, upper, child) ==
  IF lower > upper
  THEN IF child >= PI /\ child <= TWO_PI
       THEN child >= lower /\ child <= TWO_PI + upper
       ELSE (child + TWO_PI) >= lower /\ child <= upper
  ELSE child >= lower /\ child <= upper

\* Bone.moveInitial, the bone's own fields
moveInitial(b, toX, toY) ==
  [b EXCEPT !.fk = FK_MOVE, !.x0 = toX, !.y0 = toY,
            !.x1 = b.x1 + (toX - b.x0), !.y1 = b.y1 + (toY - b.y0)]

\* Bone.rotate, the bone's own fields
rotate(b, deltaAngle, c1, s1) ==
  LET dx == MulT(b.deltaX, c1) - MulT(b.deltaY, s1)
      dy == MulT(b.deltaX, s1) + MulT(b.deltaY, c1)
  IN  [b EXCEPT !.fk = FK_ROTATE, !.angle = b.angle + deltaAngle,
                !.x1 = dx + b.x0, !.y1 = dy + b.y0,
                !.deltaX = dx, !.deltaY = dy]

\* a moveAndRotate that rotates the bone where it stands
moveAndRotateInPlace(b, toX, toY, deltaAngle, c1, s1) == rotate(b, deltaAngle, c1, s1)

\* Bone.moveAndRotate, the bone's own fields
moveAndRotate(b, toX, toY, deltaAngle, c1, s1) ==
  LET dx == MulT(b.deltaX, c1) - MulT(b.deltaY, s1)
      dy == MulT(b.deltaX, s1) + MulT(b.deltaY, c1)
  IN  [b EXCEPT !.x0 = toX, !.y0 = toY,
                !.fk = FK_ROTATE, !.angle = b.angle + deltaAngle,
                !.x1 = dx + toX, !.y1 = dy + toY,
                !.deltaX = dx, !.deltaY = dy]

\* a reorient that turns the bone about the initial joint it already has
reorientInPlace(b, toX, toY, angle, move) ==
  [b EXCEPT !.angle = angle,
            !.x1 = b.x0 + MulT(b.length, Cos(angle)),
            !.y1 = b.y0 + MulT(b.length, Sin(angle))]

\* Bone.reorient
reorient(b, toX, toY, angle, move) ==
  LET nx0 == IF move THEN toX ELSE b.x0
      ny0 == IF move THEN toY ELSE b.y0
  IN  [b EXCEPT !.angle = angle, !.x0 = nx0, !.y0 = ny0,
                !.x1 = nx0 + MulT(b.length, Cos(angle)),
                !.y1 = ny0 + MulT(b.length, Sin(angle))]

\* Bone.orientation (setter), lines 313-324: the normalised input angle
setterAngle(rad) == IF rad >= 0 THEN rad ELSE TWO_PI + rad

\* Bone.orientation (setter), lines 319-324: the delta angle
setterDelta(b, rad) ==
  LET dA == setterAngle(rad) - orientation(b)
  IN  IF Abs(dA) > PI
      THEN IF dA < 0 THEN dA + TWO_PI ELSE dA - TWO_PI
      ELSE dA

\* Bone.orientation (setter), lines 326-349: TRUE when the value is rejected.
\* hasParent / p0: whether PREV or linkedTo exists, and its endOrientation
setterRejects(b, rad, hasParent, p0) ==
  /\ ~b.unconstrained
  /\ hasParent
  /\ LET lo == p0 + b.lowerLimit
         lower == IF lo > 0 THEN lo ELSE TWO_PI + lo
         up == p0 + b.upperLimit
         upper == IF up <= TWO_PI THEN up ELSE up - TWO_PI
     IN  ~isInLimit(lower, upper, setterAngle(rad))

\* Bone.orientation (setter), lines 351-367: the bone's own fields when the
\* value is accepted
setterApply(b, rad) ==
  LET dA == setterDelta(b, rad)
      c == Cos(dA)
      s == Sin(dA)
      newDX == MulT(b.deltaX, c) - MulT(b.deltaY, s)
      newDY == MulT(b.deltaX, s) + MulT(b.deltaY, c)
  IN  [b EXCEPT !.fk = FK_ROTATE, !.angle = setterAngle(rad),
                !.x1 = newDX + b.x0, !.y1 = newDY + b.y0,
                !.deltaX = newDX, !.deltaY = newDY,
                !.length = Sqrt(newDX * newDX + newDY * newDY)]

\* ------------------------------------------------------------------------
\* Forward kinematics.  A world w is [bones, hand, hand2, forward, linkedTo,
\* finals]: the chain's bones in order (NEXT of bones[i] is bones[i+1], PREV
\* is bones[i-1], as Chain.addBone wires them), the single-bone chains "hand"
\* and "hand2" that may be linked forward, Chain._forward, Chain._linkedTo,
\* and the number of calls of the _onFinal callback registered on the bones
\* of the chain.
\* ------------------------------------------------------------------------

\* Chain.move / Chain.moveAndRotate of the hand chain: its root bone is its
\* only bone and has neither NEXT nor linkedTo
handMove(h, toX, toY) == moveInitial(h, toX, toY)

handMoveAndRotate(h, toX, toY, deltaAngle) ==
  moveAndRotate(h, toX, toY, deltaAngle, Cos(deltaAngle), Sin(deltaAngle))

\* the single-bone chain a _linkedTo or _forward entry refers to
linkedNode(w, c) == IF c = "hand" THEN w.hand ELSE w.hand2

\* the world with that single-bone chain replaced
withNode(w, c, nb) ==
  IF c = "hand" THEN [w EXCEPT !.hand = nb] ELSE [w EXCEPT !.hand2 = nb]

\* this._linkedTo.move(toX, toY)
linkedMove(w, c, toX, toY) == withNode(w, c, handMove(linkedNode(w, c), toX, toY))

\* this._linkedTo.moveAndRotate(toX, toY, deltaAngle)
linkedMoveAndRotate(w, c, toX, toY, deltaAngle) ==
  withNode(w, c, handMoveAndRotate(linkedNode(w, c), toX, toY, deltaAngle))

\* this._onFinal(...) of a bone of the chain
onFinal(w) == [w EXCEPT !.finals = @ + 1]

\* Bone.moveInitial with its propagation (lines 425-440)
RECURSIVE fkMoveInitial(_, _, _, _)
fkMoveInitial(w, i, toX, toY) ==
  LET b  == moveInitial(w.bones[i], toX, toY)
      w1 == [w EXCEPT !.bones[i] = b]
  IN  IF i < Len(w.bones) THEN fkMoveInitial(w1, i + 1, b.x1, b.y1)
      ELSE IF b.linkedTo # "none"
           THEN linkedMove(onFinal(w1), b.linkedTo, b.x1, b.y1)
           ELSE onFinal(w1)

\* Bone.moveAndRotate with its propagation (lines 527-542)
RECURSIVE fkMoveAndRotate(_, _, _, _, _, _, _)
fkMoveAndRotate(w, i, toX, toY, deltaAngle, c1, s1) ==
  LET b  == moveAndRotate(w.bones[i], toX, toY, deltaAngle, c1, s1)
      w1 == [w EXCEPT !.bones[i] = b]
  IN  IF i < Len(w.bones)
      THEN fkMoveAndRotate(w1, i + 1, b.x1, b.y1, deltaAngle, c1, s1)
      ELSE IF b.linkedTo # "none"
           THEN linkedMoveAndRotate(onFinal(w1), b.linkedTo, b.x1, b.y1, deltaAngle)
           ELSE onFinal(w1)

\* Bone.rotate with its propagation (lines 471-486)
fkRotate(w, i, deltaAngle) ==
  LET c1 == Cos(deltaAngle)
      s1 == Sin(deltaAngle)
      b  == rotate(w.bones[i], deltaAngle, c1, s1)
      w1 == [w EXCEPT !.bones[i] = b]
  IN  IF i < Len(w.bones)
      THEN fkMoveAndRotate(w1, i + 1, b.x1, b.y1, deltaAngle, c1, s1)
      ELSE IF b.linkedTo # "none"
           THEN linkedMoveAndRotate(onFinal(w1), b.linkedTo, b.x1, b.y1, deltaAngle)
           ELSE onFinal(w1)

\* Bone.orientation (setter), line 331: is there a parent to check against
hasParent(w, i) == i > 1 \/ w.bones[i].linkedTo # "none"

\* Bone.orientation (setter), line 338: parent.endOrientation
parentOrientation(w, i) ==
  IF i > 1 THEN orientation(w.bones[i - 1])
  ELSE orientation(linkedNode(w, w.bones[i].linkedTo))

\* Bone.orientation (setter), lines 351-387: the accepted value applied to
\* bone i and propagated
setterAccept(w, i, rad) ==
  LET dA == setterDelta(w.bones[i], rad)
      b  == setterApply(w.bones[i], rad)
      w1 == [w EXCEPT !.bones[i] = b]
  IN  IF i < Len(w.bones)
      THEN fkMoveAndRotate(w1, i + 1, b.x1, b.y1, dA, Cos(dA), Sin(dA))
      ELSE IF b.linkedTo # "none"
           THEN linkedMove(onFinal(w1), b.linkedTo, b.x1, b.y1)
           ELSE onFinal(w1)

\* an orientation setter that records the FK type and the angle before it
\* tests the limits
fkSetOrientationMarksFirst(w, i, rad) ==
  IF setterRejects(w.bones[i], rad, hasParent(w, i), parentOrientation(w, i))
  THEN [w EXCEPT !.bones[i].fk = FK_ROTATE, !.bones[i].angle = setterAngle(rad)]
  ELSE setterAccept(w, i, rad)

\* Bone.orientation (setter) with its propagation (lines 310-388)
fkSetOrientation(w, i, rad) ==
  IF setterRejects(w.bones[i], rad, hasParent(w, i), parentOrientation(w, i))
  THEN w
  ELSE setterAccept(w, i, rad)

\* ------------------------------------------------------------------------
\* Chain (chain.ts)
\* ------------------------------------------------------------------------

\* Chain.size
size(w) == Len(w.bones)

\* Chain.terminalX / terminalY
terminalX(w) == w.bones[Len(w.bones)].x1

terminalY(w) == w.bones[Len(w.bones)].y1

\* Chain.initX / initY
initX(w) == w.bones[1].x0

initY(w) == w.bones[1].y0

\* Chain.endOrientation
endOrientation(w) == orientation(w.bones[Len(w.bones)])

\* Chain.addBoneAt: a new bone from (x0, y0) to (x1, y1), appended
addBoneAt(bs, x0, y0, x1, y1) ==
  Append(bs, setTerminal(setInitial(NewBone, x0, y0, TRUE), x1, y1))

\* a link that registers c and moves it to the terminal point but never
\* turns it
linkMovesOnly(w, c, orient) ==
  LET n  == Len(w.bones)
      w1 == [w EXCEPT !.forward = Append(w.forward, c),
                      !.linkedTo = c,
                      !.bones[n].linkedTo = c]
      w2 == withNode(w1, c, [linkedNode(w, c) EXCEPT !.linkedFrom = "chain"])
  IN  linkedMove(w2, c, w.bones[n].x1, w.bones[n].y1)

\* Chain.link(c, orient): lines 386-410, c one of the single-bone chains
link(w, c, orient) ==
  LET n  == Len(w.bones)
      w1 == [w EXCEPT !.forward = Append(w.forward, c),
                      !.linkedTo = c,
                      !.bones[n].linkedTo = c]
      w2 == withNode(w1, c, [linkedNode(w, c) EXCEPT !.linkedFrom = "chain"])
      endX == w.bones[n].x1
      endY == w.bones[n].y1
  IN  IF orient
      THEN linkedMoveAndRotate(w2, c, endX, endY,
                               orientation(w.bones[n]) - orientation(linkedNode(w, c)))
      ELSE linkedMove(w2, c, endX, endY)

\* Chain.invalidate: lines 553-576
RECURSIVE invalidateFrom(_, _)
invalidateFrom(w, k) ==
  IF k > Len(w.forward) THEN w
  ELSE invalidateFrom(
         linkedMoveAndRotate(w, w.forward[k], terminalX(w), terminalY(w),
                             endOrientation(w) - orientation(linkedNode(w, w.forward[k]))),
         k + 1)

invalidate(w) == invalidateFrom(w, 1)

\* ------------------------------------------------------------------------
\* ccdBasic (ccd-basic.ts lines 47-195)
\* ------------------------------------------------------------------------

\* _stop: squared distance at which the solve stops
stop == 4

\* _maxCycles
maxCycles == 3

\* squared distance between two points
DistSq(ax, ay, bx, by) == (ax - bx) * (ax - bx) + (ay - by) * (ay - by)

\* target phase, lines 79-113: it is _iterations, cur is (_curTargetX,
\* _curTargetY), rec is (_recordX, _recordY) indexed from 0
RECURSIVE ccdTargetPhase(_, _, _, _)
ccdTargetPhase(bs, it, cur, rec) ==
  LET n == Len(bs)
  IN  IF it < n
      THEN LET index == n - it - 1
               bone  == bs[index + 1]
               rot   == Atan2(cur[2] - bone.y0, cur[1] - bone.x0)
               l     == bone.length
               nc    == <<cur[1] - MulT(l, Cos(rot)), cur[2] - MulT(l, Sin(rot))>>
               nrec  == IF index > 0 THEN [rec EXCEPT ![index - 1] = nc] ELSE rec
           IN  ccdTargetPhase(bs, it + 1, nc, nrec)
      ELSE [cur |-> cur, rec |-> [rec EXCEPT ![n - 1] = cur]]

\* a position phase whose root bone follows the virtual target
RECURSIVE ccdPositionPhaseRootFollows(_, _, _, _, _, _, _)
ccdPositionPhaseRootFollows(w, it, rec, cur, term, delta, target) ==
  LET n == Len(w.bones)
  IN  IF it >= n THEN w
      ELSE LET bone == w.bones[it + 1]
           IN  IF it = 0
               THEN LET b1 == setInitial(bone, cur[1], cur[2], FALSE)
                        w1 == [w EXCEPT !.bones[1] = setTerminal(b1, rec[0][1], rec[0][2])]
                    IN  ccdPositionPhaseRootFollows(w1, 1, rec, cur, rec[0], <<0, 0>>, target)
               ELSE IF it < n - 1
               THEN LET b1 == setInitial(bone, term[1], term[2], FALSE)
                        w1 == [w EXCEPT !.bones[it + 1] =
                                 setTerminal(b1, rec[it][1], rec[it][2])]
                    IN  ccdPositionPhaseRootFollows(w1, it + 1, rec, cur, rec[it], delta,
                                                    target)
               ELSE LET b1 == setInitial(bone, term[1], term[2], FALSE)
                        w1 == [w EXCEPT !.bones[it + 1] = b1]
                        w2 == fkSetOrientation(w1, it + 1,
                                Atan2(target[2] - term[2], target[1] - term[1]))
                    IN  ccdPositionPhaseRootFollows(w2, it + 1, rec, cur, term, delta,
                                                    target)

\* position phase, lines 117-160: term is (_termX, _termY), delta is
\* (_deltaX, _deltaY), target is (_targetX, _targetY)
RECURSIVE ccdPositionPhase(_, _, _, _, _, _, _)
ccdPositionPhase(w, it, rec, cur, term, delta, target) ==
  LET n == Len(w.bones)
  IN  IF it >= n THEN w
      ELSE LET bone == w.bones[it + 1]
           IN  IF it = 0
               THEN LET d  == <<cur[1] - bone.x0, cur[2] - bone.y0>>
                        t  == <<rec[0][1] - d[1], rec[0][2] - d[2]>>
                        w1 == [w EXCEPT !.bones[1] = setTerminal(bone, t[1], t[2])]
                    IN  ccdPositionPhase(w1, 1, rec, cur, t, d, target)
               ELSE IF it < n - 1
               THEN LET t  == <<rec[it][1] - delta[1], rec[it][2] - delta[2]>>
                        b1 == setInitial(bone, term[1], term[2], FALSE)
                        w1 == [w EXCEPT !.bones[it + 1] = setTerminal(b1, t[1], t[2])]
                    IN  ccdPositionPhase(w1, it + 1, rec, cur, t, delta, target)
               ELSE LET b1 == setInitial(bone, term[1], term[2], FALSE)
                        w1 == [w EXCEPT !.bones[it + 1] = b1]
                        w2 == fkSetOrientation(w1, it + 1,
                                Atan2(target[2] - term[2], target[1] - term[1]))
                    IN  ccdPositionPhase(w2, it + 1, rec, cur, term, delta, target)

\* the while loop, lines 75-185.  The result carries the world, the value
\* returned, the value of _cycles and the error of the last convergence check
RECURSIVE ccdLoop(_, _, _, _)

\* convergence check, lines 162-185: w1 is the chain after the position phase
ccdConverge(w1, cycles, rec, target) ==
  LET error    == DistSq(target[1], target[2], terminalX(w1), terminalY(w1))
      finished == error <= stop \/ cycles >= maxCycles
  IN  IF ~finished
      THEN ccdLoop(w1, cycles + 1, rec, target)
      ELSE [w |-> w1, resolved |-> TRUE, cycles |-> cycles, error |-> error]

\* one pass of the loop body once the target phase has left tp
ccdCycle(w, cycles, tp, target) ==
  ccdConverge(ccdPositionPhase(w, 0, tp.rec, tp.cur, <<0, 0>>, <<0, 0>>, target),
              cycles, tp.rec, target)

ccdLoop(w, cycles, rec, target) ==
  ccdCycle(w, cycles, ccdTargetPhase(w.bones, 0, target, rec), target)

\* a pinned solve that runs the free solve
ccdBasicPinnedSolves(x, y, w) ==
  ccdLoop(w, 0, [k \in 0 .. (Len(w.bones) - 1) |-> <<0, 0>>], <<x, y>>)

\* ccdBasicPinned, lines 191-195
ccdBasicPinned(x, y, w) ==
  [w |-> w, resolved |-> FALSE, cycles |-> 0, error |-> 0]

\* ccdBasic, lines 47-189
ccdBasic(x, y, w, isPinned) ==
  IF isPinned THEN ccdBasicPinned(x, y, w)
  ELSE ccdLoop(w, 0, [k \in 0 .. (Len(w.bones) - 1) |-> <<0, 0>>], <<x, y>>)

\* ------------------------------------------------------------------------
\* limbSolver (ccd-basic.ts lines 228-444)
\* ------------------------------------------------------------------------

\* default limits when params is null: -3*PI/5, PI/2, -PI/2, 3*PI/4
lower0 == -108

upper0 == 90

lower1 == -90

upper1 == 135

\* the 0.1 radian of lines 354 and 420: |a| < 0.1 rad <=> |a| <= 5 degrees
pointToTol == 5

\* isClockwise
isClockwise(x0, y0, x1, y1, x2, y2) ==
  (y2 - y0) * (x1 - x0) > (y1 - y0) * (x2 - x0)

\* getRotation
getRotation(xRoot, yRoot, p, c, lower, upper, bX, bY, tX, tY) ==
  LET parent == IF p > 0 THEN p ELSE TWO_PI + p
      child  == IF c > 0 THEN c ELSE TWO_PI + c
      lo     == parent + lower
      lowerN == IF lo >= 0 THEN lo ELSE TWO_PI + lo
      upperN == parent + upper
      cw     == isClockwise(xRoot, yRoot, bX, bY, tX, tY)
  IN  IF cw
      THEN LET d0 == upperN - child
               d  == IF d0 > PI THEN d0 - TWO_PI ELSE d0
           IN  IF d < 0 THEN upperN ELSE c
      ELSE LET d == child - lowerN
           IN  IF d < 0 THEN lowerN ELSE c

\* lines 350-363 and 417-426: the second bone once the first was clamped
limbClamped(w1, xRoot, yRoot, theta1, tX, tY) ==
  LET b2X     == w1.bones[1].x1
      b2Y     == w1.bones[1].y1
      pointTo == Atan2(tY - b2Y, tX - b2X)
      theta2  == IF Abs(theta1 - pointTo) <= pointToTol
                 THEN theta1
                 ELSE getRotation(xRoot, yRoot, theta1, pointTo, lower1, upper1,
                                  b2X, b2Y, tX, tY)
  IN  [w1 EXCEPT !.bones[2] = reorient(w1.bones[2], b2X, b2Y, theta2, TRUE)]

\* limbSolver with params = null, as Chain.moveEndEffector calls it.  The
\* result carries the world, the value returned, the branch taken ("far":
\* line 328, "near": line 371, "ok": line 390), the limit flag and the
\* closed-form angles theta1 (before the clamp) and theta2 (acos)
limbSolver(x, y, w) ==
  LET xRoot == initX(w)
      yRoot == initY(w)
      b1    == w.bones[1]
      b2    == w.bones[2]
      l1    == b1.length
      l2    == b2.length
      lMax  == (l1 + l2) * (l1 + l2)
      two_l1l2 == 2 * l1 * l2
      dX    == x - xRoot
      dY    == y - yRoot
      dSq   == dX * dX + dY * dY
      num   == dSq - l1 * l1 - l2 * l2
  IN  IF dSq > lMax
      THEN LET t     == Atan2(dY, dX)
               limit == t < lower0 \/ t > upper0
               theta1 == IF t < lower0 THEN lower0
                         ELSE IF t > upper0 THEN upper0 ELSE t
               w1    == [w EXCEPT !.bones[1] = reorient(b1, 0, 0, theta1, FALSE)]
               w2    == IF limit
                        THEN limbClamped(w1, xRoot, yRoot, theta1, x, y)
                        ELSE [w1 EXCEPT !.bones[2] =
                                reorient(b2, w1.bones[1].x1, w1.bones[1].y1, theta1, TRUE)]
           IN  [w |-> invalidate(w2), resolved |-> FALSE, branch |-> "far",
                limit |-> limit, theta1 |-> t, theta2 |-> 0]
      ELSE IF num < -two_l1l2 \/ num > two_l1l2
      THEN LET t      == Atan2(dY, dX)
               theta1 == Min(Max(t, lower0), upper0)
               w1     == [w EXCEPT !.bones[1] = reorient(b1, 0, 0, theta1, FALSE)]
               angle  == Min(PI, upper1)
               w2     == [w1 EXCEPT !.bones[2] =
                            reorient(b2, w1.bones[1].x1, w1.bones[1].y1, theta1 + angle, TRUE)]
           IN  [w |-> invalidate(w2), resolved |-> dSq <= lMax, branch |-> "near",
                limit |-> FALSE, theta1 |-> t, theta2 |-> 0]
      ELSE LET c2     == Round(num * TrigScale, two_l1l2)
               acos2  == Acos(c2)
               s2     == Sin(acos2)
               l2s2   == l2 * s2
               l2c2   == l2 * c2
               l1c2   == l1 * TrigScale + l2c2
               t      == Atan2(l1c2 * dY - l2s2 * dX, l2s2 * dY + l1c2 * dX)
               limit  == t < lower0 \/ t > upper0
               theta1 == IF t < lower0 THEN lower0
                         ELSE IF t > upper0 THEN upper0 ELSE t
               w1     == [w EXCEPT !.bones[1] = reorient(b1, 0, 0, theta1, FALSE)]
               b2X    == w1.bones[1].x1
               b2Y    == w1.bones[1].y1
               w2     == IF limit
                         THEN limbClamped(w1, xRoot, yRoot, theta1, x, y)
                         ELSE [w1 EXCEPT !.bones[2] =
                                 reorient(b2, b2X, b2Y,
                                   getRotation(xRoot, yRoot, theta1, theta1 + acos2,
                                               lower1, upper1, b2X, b2Y, x, y),
                                   TRUE)]
           IN  [w |-> invalidate(w2), resolved |-> IF limit THEN FALSE ELSE dSq <= lMax,
                branch |-> "ok", limit |-> limit, theta1 |-> t, theta2 |-> acos2]

\* Chain.moveEndEffector, lines 640-711, for a chain without a backward link
\* (_linkedFrom = null) and REDRAW_ON_SOLVE = false.  solver is the chain's
\* _ikSolver.

\* lines 652-660: the call of the solver, with the fields the other solver
\* reports filled in
ikSolve(w, solver, toX, toY, isPinned) ==
  IF solver = "limbSolver"
  THEN limbSolver(toX, toY, w) @@ [cycles |-> 0, error |-> 0]
  ELSE ccdBasic(toX, toY, w, isPinned) @@ [branch |-> "ccd", limit |-> FALSE,
                                           theta1 |-> 0, theta2 |-> 0]

\* lines 662-711: the final linkedTo.move, r being the solver's result
moveLinked(r, toX, toY, isPinned) ==
  LET targetX == IF r.resolved THEN toX
                 ELSE IF isPinned THEN initX(r.w) ELSE terminalX(r.w)
      targetY == IF r.resolved THEN toY
                 ELSE IF isPinned THEN initY(r.w) ELSE terminalY(r.w)
  IN  IF r.w.linkedTo # "none"
      THEN [r EXCEPT !.w = linkedMove(r.w, r.w.linkedTo, targetX, targetY)]
      ELSE r

\* the result is the solver's result with the world after the final move
moveEndEffector(w, solver, toX, toY, isPinned) ==
  moveLinked(ikSolve(w, solver, toX, toY, isPinned), toX, toY, isPinned)

\* ------------------------------------------------------------------------
\* The Bone mutators on arguments that may be NaN (bone.ts 261-543).  A
\* number is an integer or NaN; the arithmetic of a double makes every sum,
\* difference, product and function of NaN a NaN and every comparison with
\* NaN false.
\* ------------------------------------------------------------------------

\* Number.NaN: a value no coordinate or angle takes
NaN == -(10 ^ 9)

fAdd(a, b) == IF a = NaN \/ b = NaN THEN NaN ELSE a + b

fSub(a, b) == IF a = NaN \/ b = NaN THEN NaN ELSE a - b

\* v * t, t a cosine or sine
fMulT(v, t) == IF v = NaN \/ t = NaN THEN NaN ELSE MulT(v, t)

fCos(a) == IF a = NaN THEN NaN ELSE Cos(a)

fSin(a) == IF a = NaN THEN NaN ELSE Sin(a)

\* Math.sqrt(dx*dx + dy*dy)
fHypot(dx, dy) == IF dx = NaN \/ dy = NaN THEN NaN ELSE Sqrt(dx * dx + dy * dy)

fAtan2(y, x) == IF x = NaN \/ y = NaN THEN NaN ELSE Atan2(y, x)

fGe(a, b) == a # NaN /\ b # NaN /\ a >= b

fLe(a, b) == a # NaN /\ b # NaN /\ a <= b

fGt(a, b) == a # NaN /\ b # NaN /\ a > b

\* Bone.setInitial
nfSetInitial(b, cX, cY, updateLength) ==
  IF updateLength
  THEN [b EXCEPT !.x0 = cX, !.y0 = cY,
                 !.deltaX = fSub(b.x1, cX), !.deltaY = fSub(b.y1, cY),
                 !.length = fHypot(fSub(b.x1, cX), fSub(b.y1, cY))]
  ELSE [b EXCEPT !.x0 = cX, !.y0 = cY]

\* Bone.setTerminal
nfSetTerminal(b, cX, cY) ==
  IF b.drawing THEN b
  ELSE [b EXCEPT !.x1 = cX, !.y1 = cY,
                 !.deltaX = fSub(cX, b.x0), !.deltaY = fSub(cY, b.y0),
                 !.length = fHypot(fSub(cX, b.x0), fSub(cY, b.y0)),
                 !.angle = fAtan2(fSub(cY, b.y0), fSub(cX, b.x0))]

\* Bone.moveInitial, the bone's own fields
nfMoveInitial(b, toX, toY) ==
  [b EXCEPT !.fk = FK_MOVE, !.x0 = toX, !.y0 = toY,
            !.x1 = fAdd(b.x1, fSub(toX, b.x0)), !.y1 = fAdd(b.y1, fSub(toY, b.y0))]

\* the terminal joint and the cache after a turn by (c1, s1) about (px, py)
nfTurned(b, px, py, c1, s1) ==
  [b EXCEPT !.x1 = fAdd(fSub(fMulT(b.deltaX, c1), fMulT(b.deltaY, s1)), px),
            !.y1 = fAdd(fAdd(fMulT(b.deltaX, s1), fMulT(b.deltaY, c1)), py),
            !.deltaX = fSub(fMulT(b.deltaX, c1), fMulT(b.deltaY, s1)),
            !.deltaY = fAdd(fMulT(b.deltaX, s1), fMulT(b.deltaY, c1))]

\* Bone.rotate, the bone's own fields
nfRotate(b, deltaAngle, c1, s1) ==
  [nfTurned(b, b.x0, b.y0, c1, s1) EXCEPT !.fk = FK_ROTATE,
                                          !.angle = fAdd(b.angle, deltaAngle)]

\* Bone.moveAndRotate, the bone's own fields
nfMoveAndRotate(b, toX, toY, deltaAngle, c1, s1) ==
  [nfTurned(b, toX, toY, c1, s1) EXCEPT !.x0 = toX, !.y0 = toY, !.fk = FK_ROTATE,
                                        !.angle = fAdd(b.angle, deltaAngle)]

\* this._linkedTo.move(toX, toY)
nfLinkedMove(w, c, toX, toY) ==
  withNode(w, c, nfMoveInitial(linkedNode(w, c), toX, toY))

\* this._linkedTo.moveAndRotate(toX, toY, deltaAngle)
nfLinkedMoveAndRotate(w, c, toX, toY, deltaAngle) ==
  withNode(w, c, nfMoveAndRotate(linkedNode(w, c), toX, toY, deltaAngle,
                                 fCos(deltaAngle), fSin(deltaAngle)))

\* Bone.moveInitial with its propagation (lines 425-440)
RECURSIVE nfFkMoveInitial(_, _, _, _)
nfFkMoveInitial(w, i, toX, toY) ==
  LET b  == nfMoveInitial(w.bones[i], toX, toY)
      w1 == [w EXCEPT !.bones[i] = b]
  IN  IF i < Len(w.bones) THEN nfFkMoveInitial(w1, i + 1, b.x1, b.y1)
      ELSE IF b.linkedTo # "none"
           THEN nfLinkedMove(onFinal(w1), b.linkedTo, b.x1, b.y1)
           ELSE onFinal(w1)

\* Bone.moveAndRotate with its propagation (lines 527-542)
RECURSIVE nfFkMoveAndRotate(_, _, _, _, _, _, _)
nfFkMoveAndRotate(w, i, toX, toY, deltaAngle, c1, s1) ==
  LET b  == nfMoveAndRotate(w.bones[i], toX, toY, deltaAngle, c1, s1)
      w1 == [w EXCEPT !.bones[i] = b]
  IN  IF i < Len(w.bones)
      THEN nfFkMoveAndRotate(w1, i + 1, b.x1, b.y1, deltaAngle, c1, s1)
      ELSE IF b.linkedTo # "none"
           THEN nfLinkedMoveAndRotate(onFinal(w1), b.linkedTo, b.x1, b.y1, deltaAngle)
           ELSE onFinal(w1)

\* Bone.rotate with its propagation (lines 452-487)
nfFkRotate(w, i, deltaAngle) ==
  LET b  == nfRotate(w.bones[i], deltaAngle, fCos(deltaAngle), fSin(deltaAngle))
      w1 == [w EXCEPT !.bones[i] = b]
  IN  IF i < Len(w.bones)
      THEN nfFkMoveAndRotate(w1, i + 1, b.x1, b.y1, deltaAngle,
                             fCos(deltaAngle), fSin(deltaAngle))
      ELSE IF b.linkedTo # "none"
           THEN nfLinkedMoveAndRotate(onFinal(w1), b.linkedTo, b.x1, b.y1, deltaAngle)
           ELSE onFinal(w1)

\* Bone.orientation (getter)
nfOrientation(b) == IF fGe(b.angle, 0) THEN b.angle ELSE fAdd(TWO_PI, b.angle)

\* Bone.__isInLimit
nfIsInLimit(lower, upper, child) ==
  IF fGt(lower, upper)
  THEN IF fGe(child, PI) /\ fLe(child, TWO_PI)
       THEN fGe(child, lower) /\ fLe(child, fAdd(TWO_PI, upper))
       ELSE fGe(fAdd(child, TWO_PI), lower) /\ fLe(child, upper)
  ELSE fGe(child, lower) /\ fLe(child, upper)

\* Bone.orientation (setter), lines 313-324: angle and dA
nfSetterAngle(rad) == IF fGe(rad, 0) THEN rad ELSE fAdd(TWO_PI, rad)

nfSetterDelta(b, rad) ==
  LET dA == fSub(nfSetterAngle(rad), nfOrientation(b))
  IN  IF dA # NaN /\ Abs(dA) > PI
      THEN IF dA < 0 THEN dA + TWO_PI ELSE dA - TWO_PI
      ELSE dA

\* Bone.orientation (setter), lines 326-349: TRUE when the value is rejected
nfSetterRejects(w, i, rad) ==
  /\ ~w.bones[i].unconstrained
  /\ hasParent(w, i)
  /\ LET p0 == IF i > 1 THEN nfOrientation(w.bones[i - 1])
               ELSE nfOrientation(linkedNode(w, w.bones[i].linkedTo))
         lo == fAdd(p0, w.bones[i].lowerLimit)
         up == fAdd(p0, w.bones[i].upperLimit)
     IN  ~nfIsInLimit(IF fGt(lo, 0) THEN lo ELSE fAdd(TWO_PI, lo),
                      IF fLe(up, TWO_PI) THEN up ELSE fSub(up, TWO_PI),
                      nfSetterAngle(rad))

\* Bone.orientation (setter), lines 351-367: the bone's own fields
nfSetterApply(b, rad, dA) ==
  [nfTurned(b, b.x0, b.y0, fCos(dA), fSin(dA)) EXCEPT
     !.fk = FK_ROTATE, !.angle = nfSetterAngle(rad),
     !.length = fHypot(fSub(fMulT(b.deltaX, fCos(dA)), fMulT(b.deltaY, fSin(dA))),
                       fAdd(fMulT(b.deltaX, fSin(dA)), fMulT(b.deltaY, fCos(dA))))]

\* lines 351-387, dA being the delta angle
nfSetterAccept(w, i, rad, dA) ==
  LET b  == nfSetterApply(w.bones[i], rad, dA)
      w1 == [w EXCEPT !.bones[i] = b]
  IN  IF i < Len(w.bones)
      THEN nfFkMoveAndRotate(w1, i + 1, b.x1, b.y1, dA, fCos(dA), fSin(dA))
      ELSE IF b.linkedTo # "none"
           THEN nfLinkedMove(onFinal(w1), b.linkedTo, b.x1, b.y1)
           ELSE onFinal(w1)

\* Bone.orientation (setter) with its propagation (lines 310-388)
nfFkSetOrientation(w, i, rad) ==
  IF nfSetterRejects(w, i, rad) THEN w
  ELSE nfSetterAccept(w, i, rad, nfSetterDelta(w.bones[i], rad))

\* ------------------------------------------------------------------------
\* Chain wiring (chain.ts 425-451, 513-521, 536-547).  The bones are the
\* objects 1, 2, ... of a heap in order of creation, null is 0.  A wiring is
\* [heap, bones, count, current, previous, rootBone, terminalBone]: the
\* NEXT, PREV, IS_ROOT and IS_END of every bone created, and Chain._bones,
\* _count, _current, _previous, _rootBone, _terminalBone.
\* ------------------------------------------------------------------------

\* null
NULL == 0

\* BaseBone constructor, lines 85-88, and Bone.init, lines 681-687
NewWired ==
  [NEXT |-> NULL, PREV |-> NULL, IS_ROOT |-> FALSE, IS_END |-> FALSE,
   linkedTo |-> "none"]

\* Chain.__init
NewWiring ==
  [heap |-> << >>, bones |-> << >>, count |-> 0, current |-> NULL,
   previous |-> NULL, rootBone |-> NULL, terminalBone |-> NULL, linkedTo |-> "none"]

\* Chain.addBone(b), b a bone just constructed
addBone(c) ==
  LET b     == Len(c.heap) + 1
      prev  == IF c.count = 0 THEN NULL ELSE c.current
      heap1 == [Append(c.heap, NewWired) EXCEPT ![b].IS_ROOT = (c.count = 0),
                                                ![b].IS_END = TRUE]
      heap2 == IF c.count > 0
               THEN [heap1 EXCEPT ![prev].IS_END = FALSE, ![prev].NEXT = b,
                                  ![b].PREV = prev]
               ELSE heap1
  IN  [c EXCEPT !.heap = heap2, !.bones = Append(c.bones, b),
                !.previous = prev, !.current = b,
                !.rootBone = IF c.count = 0 THEN b ELSE c.rootBone,
                !.terminalBone = b, !.count = c.count + 1]

\* Chain.createBone
createBone(c) == addBone(c)

\* Chain.link(n, orient), lines 386-410, on a chain of at least one bone: the
\* linkedTo setter (lines 252-259) on the chain and its terminal bone
wireLink(c, n) ==
  [c EXCEPT !.linkedTo = n, !.heap[c.terminalBone].linkedTo = n]

\* Chain.pop, on a chain of at least two bones; Bone.destruct leaves the
\* popped bone's _linkedTo as it is
pop(c) ==
  LET b     == c.bones[Len(c.bones)]
      rest  == SubSeq(c.bones, 1, Len(c.bones) - 1)
      t     == rest[Len(rest)]
      heap1 == [c.heap EXCEPT ![b] = [NewWired EXCEPT !.linkedTo = c.heap[b].linkedTo]]
  IN  [c EXCEPT !.bones = rest, !.count = Len(rest), !.terminalBone = t,
                !.heap = [heap1 EXCEPT ![t].IS_END = TRUE, ![t].NEXT = NULL]]

\* ------------------------------------------------------------------------
\* Connector (ccd-basic.ts 493-992) and its subclasses Pelvis and
\* SimpleSpine.  A connector is a record of its pivot, origin, terminators,
\* angle and FK type and of _linkLeft, _linkMiddle, _linkRight, each "none"
\* or the name of a child.  A skeleton is [root, kids]: a connector and the
\* connectors that may be linked to its terminators, by name.
\* ------------------------------------------------------------------------

\* Connector constructor, lines 537-576
NewConnector(x, y, w, h) ==
  [ pivotX |-> x + w \div 2, pivotY |-> y + h \div 2, x0 |-> 0, y0 |-> 0,
    leftX |-> 0, leftY |-> 0, midX |-> 0, midY |-> 0, rightX |-> 0, rightY |-> 0,
    angle |-> -(PI \div 2), fk |-> FK_NONE,
    lowerLimit |-> -TWO_PI, upperLimit |-> TWO_PI, unconstrained |-> TRUE,
    linkedTo |-> "none",
    linkLeft |-> "none", linkMiddle |-> "none", linkRight |-> "none" ]

\* Pelvis constructor and Pelvis.__assignTerminators (pelvis.ts 38-78)
Pelvis(x, y, w, h) ==
  [NewConnector(x, y, w, h) EXCEPT
     !.leftX = x, !.leftY = y + h \div 10, !.midX = x + w \div 2, !.midY = y,
     !.rightX = x + w, !.rightY = y + h \div 10,
     !.pivotX = x + w \div 2, !.pivotY = y + h \div 2,
     !.x0 = x + w \div 2, !.y0 = y, !.angle = PI \div 2]

\* SimpleSpine constructor and SimpleSpine.__assignTerminators
\* (simple-spine.ts 44-83)
SimpleSpine(x, y, w, h) ==
  [NewConnector(x, y, w, h) EXCEPT
     !.leftX = x, !.leftY = y, !.midX = x + w \div 2, !.midY = y,
     !.rightX = x + w, !.rightY = y,
     !.pivotX = x + w \div 2, !.pivotY = y + h,
     !.x0 = x + w \div 2, !.y0 = y + h, !.angle = 3 * (PI \div 2)]

\* Connector.move, the connector's own fields (lines 790-803)
connectorMove(k, toX, toY) ==
  [k EXCEPT !.x0 = k.x0 + (toX - k.pivotX), !.y0 = k.y0 + (toY - k.pivotY),
            !.leftX = k.leftX + (toX - k.pivotX), !.leftY = k.leftY + (toY - k.pivotY),
            !.midX = k.midX + (toX - k.pivotX), !.midY = k.midY + (toY - k.pivotY),
            !.rightX = k.rightX + (toX - k.pivotX),
            !.rightY = k.rightY + (toY - k.pivotY),
            !.pivotX = toX, !.pivotY = toY]

\* lines 873-874: the angle kept within [-2*PI, 2*PI]
connectorAngle(a) ==
  IF a > TWO_PI THEN a - TWO_PI
  ELSE IF a < -TWO_PI THEN a + TWO_PI ELSE a

\* the x- and y-coordinate of the point at offset (dx, dy) from (px, py)
\* after a turn by (c, s) about (px, py)
turnX(dx, dy, c, s, px) == MulT(dx, c) - MulT(dy, s) + px

turnY(dx, dy, c, s, py) == MulT(dx, s) + MulT(dy, c) + py

\* the terminators about the pivot after a turn by (c, s), lines 853-869;
\* m is the connector already moved
connectorTurn(m, c, s) ==
  [m EXCEPT
     !.leftX = turnX(m.leftX - m.pivotX, m.leftY - m.pivotY, c, s, m.pivotX),
     !.leftY = turnY(m.leftX - m.pivotX, m.leftY - m.pivotY, c, s, m.pivotY),
     !.midX = turnX(m.midX - m.pivotX, m.midY - m.pivotY, c, s, m.pivotX),
     !.midY = turnY(m.midX - m.pivotX, m.midY - m.pivotY, c, s, m.pivotY),
     !.rightX = turnX(m.rightX - m.pivotX, m.rightY - m.pivotY, c, s, m.pivotX),
     !.rightY = turnY(m.rightX - m.pivotX, m.rightY - m.pivotY, c, s, m.pivotY)]

\* Connector.moveAndRotate, the connector's own fields (lines 831-876)
connectorMoveAndRotate(k, toX, toY, deltaAngle) ==
  [connectorTurn(connectorMove(k, toX, toY), Cos(deltaAngle), Sin(deltaAngle))
     EXCEPT !.fk = FK_ROTATE, !.angle = connectorAngle(k.angle + deltaAngle)]

\* this._linkLeft.move(x, y) and its like: the child named by a link moved,
\* nothing when the link is null.  A child has no links of its own
childMove(sk, lnk, x, y) ==
  IF lnk = "none" THEN sk
  ELSE [sk EXCEPT !.kids[lnk] = connectorMove(sk.kids[lnk], x, y)]

\* this._linkLeft.moveAndRotate(x, y, deltaAngle) and its like
childMoveAndRotate(sk, lnk, x, y, deltaAngle) ==
  IF lnk = "none" THEN sk
  ELSE [sk EXCEPT !.kids[lnk] = connectorMoveAndRotate(sk.kids[lnk], x, y, deltaAngle)]

\* Connector.move, lines 808-818: the propagation to the children
propagateMove(sk) ==
  childMove(
    childMove(
      childMove(sk, sk.root.linkLeft, sk.root.leftX, sk.root.leftY),
      sk.root.linkMiddle, sk.root.midX, sk.root.midY),
    sk.root.linkRight, sk.root.rightX, sk.root.rightY)

\* Connector.moveAndRotate, lines 878-888: the propagation to the children
propagateMoveAndRotate(sk, deltaAngle) ==
  childMoveAndRotate(
    childMoveAndRotate(
      childMoveAndRotate(sk, sk.root.linkLeft, sk.root.leftX, sk.root.leftY, deltaAngle),
      sk.root.linkMiddle, sk.root.midX, sk.root.midY, deltaAngle),
    sk.root.linkRight, sk.root.rightX, sk.root.rightY, deltaAngle)

\* Connector.move with its propagation (lines 788-819)
fkConnectorMove(sk, toX, toY) ==
  propagateMove([sk EXCEPT !.root = connectorMove(sk.root, toX, toY)])

\* Connector.moveAndRotate with its propagation (lines 829-889)
fkConnectorMoveAndRotate(sk, toX, toY, deltaAngle) ==
  propagateMoveAndRotate(
    [sk EXCEPT !.root = connectorMoveAndRotate(sk.root, toX, toY, deltaAngle)],
    deltaAngle)

\* Connector.offsetOrientation, lines 687-706: the limit test.  p0 is the
\* endOrientation of the node this._linkedTo names, read only when there is one
connectorOffsetRejects(k, p0, deltaAngle) ==
  /\ ~k.unconstrained
  /\ k.linkedTo # "none"
  /\ ~isInLimit(IF p0 + k.lowerLimit > 0 THEN p0 + k.lowerLimit
                ELSE TWO_PI + p0 + k.lowerLimit,
                IF p0 + k.upperLimit <= TWO_PI THEN p0 + k.upperLimit
                ELSE p0 + k.upperLimit - TWO_PI,
                IF k.angle + deltaAngle >= 0 THEN k.angle + deltaAngle
                ELSE TWO_PI + k.angle + deltaAngle)

\* Connector.offsetOrientation, the connector's own fields (lines 684-740)
connectorOffsetOrientation(k, p0, deltaAngle) ==
  IF connectorOffsetRejects(k, p0, deltaAngle) THEN k
  ELSE [connectorTurn(k, Cos(deltaAngle), Sin(deltaAngle)) EXCEPT
          !.fk = FK_ROTATE,
          !.x0 = turnX(k.x0 - k.pivotX, k.y0 - k.pivotY, Cos(deltaAngle),
                       Sin(deltaAngle), k.pivotX),
          !.y0 = turnY(k.x0 - k.pivotX, k.y0 - k.pivotY, Cos(deltaAngle),
                       Sin(deltaAngle), k.pivotY),
          !.angle = connectorAngle(k.angle + deltaAngle)]

\* Connector.offsetOrientation (lines 684-759) of the root, with its
\* propagation, or of the child c, which has no links of its own
fkOffsetOrientation(sk, c, deltaAngle) ==
  IF c = "root"
  THEN IF connectorOffsetRejects(sk.root, 0, deltaAngle) THEN sk
       ELSE propagateMoveAndRotate(
              [sk EXCEPT !.root = connectorOffsetOrientation(sk.root, 0, deltaAngle)],
              deltaAngle)
  ELSE [sk EXCEPT !.kids[c] =
          connectorOffsetOrientation(sk.kids[c], orientation(sk.root), deltaAngle)]

\* Connector.link(c, terminator, false), c a connector (lines 615-652): the
\* child's linkedTo setter does nothing (lines 609-612)
connectorLink(sk, c, terminator) ==
  IF terminator = "L"
  THEN [sk EXCEPT !.kids[c] = connectorMove(sk.kids[c], sk.root.leftX, sk.root.leftY),
                  !.root.linkLeft = c]
  ELSE IF terminator = "M"
  THEN [sk EXCEPT !.kids[c] = connectorMove(sk.kids[c], sk.root.midX, sk.root.midY),
                  !.root.linkMiddle = c]
  ELSE [sk EXCEPT !.kids[c] = connectorMove(sk.kids[c], sk.root.rightX, sk.root.rightY),
                  !.root.linkRight = c]

\* Chain.move / Chain.moveAndRotate (chain.ts 593-621) up to the terminal
\* bone's call of this._linkedTo.move / moveAndRotate, which is left to the
\* caller: the bones after the root bone's moveInitial or moveAndRotate
chainFK(w, op, x, y, a) ==
  [(IF op = "move"
    THEN fkMoveInitial([w EXCEPT !.bones[Len(w.bones)].linkedTo = "none"], 1, x, y)
    ELSE fkMoveAndRotate([w EXCEPT !.bones[Len(w.bones)].linkedTo = "none"], 1, x, y, a,
                         Cos(a), Sin(a)))
     EXCEPT !.bones[Len(w.bones)].linkedTo = w.bones[Len(w.bones)].linkedTo]

\* Connector.move / Connector.moveAndRotate up to the calls on the links
connectorFK(k, op, x, y, a) ==
  IF op = "move" THEN connectorMove(k, x, y) ELSE connectorMoveAndRotate(k, x, y, a)

\* the terminator of connector k that the chain is linked to, <<>> without one
chainTerminator(k) ==
  IF k.linkLeft = "chain" THEN <<k.leftX, k.leftY>>
  ELSE IF k.linkMiddle = "chain" THEN <<k.midX, k.midY>>
  ELSE IF k.linkRight = "chain" THEN <<k.rightX, k.rightY>>
  ELSE <<>>

\* Connector.link, lines 622-649: this._linkLeft = c and its like, k2 being
\* the connector at that point
linkAssigned(k2, terminator) ==
  IF terminator = "L" THEN [k2 EXCEPT !.linkLeft = "chain"]
  ELSE IF terminator = "M" THEN [k2 EXCEPT !.linkMiddle = "chain"]
  ELSE [k2 EXCEPT !.linkRight = "chain"]

\* Connector.link once c.move has moved the chain's bones, w2 being the chain
\* then: the terminal bone's call of connector.move (bone.ts 437-438) while
\* the connector's link is still null, then the link is assigned
linkAfterMove(k, w2, terminator) ==
  [w |-> w2,
   root |-> linkAssigned(connectorMove(k, w2.bones[Len(w2.bones)].x1,
                                       w2.bones[Len(w2.bones)].y1), terminator)]

\* Connector.link(chain, terminator, false), lines 615-652: chain.linkedTo =
\* connector (chain.ts 252-259, which also links the terminal bone), then
\* chain.move to the terminator
connectorLinkChain(k, w, terminator) ==
  linkAfterMove(
    k,
    chainFK([w EXCEPT !.linkedTo = "connector",
                      !.bones[Len(w.bones)].linkedTo = "connector"],
            "move",
            IF terminator = "L" THEN k.leftX
            ELSE IF terminator = "M" THEN k.midX ELSE k.rightX,
            IF terminator = "L" THEN k.leftY
            ELSE IF terminator = "M" THEN k.midY ELSE k.rightY,
            0),
    terminator)

\* ------------------------------------------------------------------------
\* State
\* ------------------------------------------------------------------------

VARIABLES
  bones,      \* Chain._bones, in order
  hand,       \* the bone of the single-bone chain that may be linked forward
  hand2,      \* the bone of a second single-bone chain that may be linked forward
  finals,     \* number of calls of the _onFinal callback of the chain's bones
  wiring,     \* the wiring of a chain built with addBone, createBone and pop
  conn,       \* a connector and the connectors linked to its terminators
  call,       \* the FK call in progress between a connector and a chain
  forward,    \* Chain._forward
  linkedTo,   \* Chain._linkedTo
  ikSolver,   \* Chain._ikSolver
  last,       \* the operation that ran last, its arguments and its result
  pre,        \* the world before that operation
  ops         \* number of operations run

vars ==
  <<bones, hand, hand2, finals, forward, linkedTo, ikSolver, last, pre, ops, wiring,
    conn, call>>

\* the variables of the chain and its linked chains
worldVars == <<bones, hand, hand2, finals, forward, linkedTo, ikSolver, pre, ops>>

\* the world of the current state
World ==
  [bones |-> bones, hand |-> hand, hand2 |-> hand2, forward |-> forward,
   linkedTo |-> linkedTo, finals |-> finals]

\* number of operations of one behaviour
MaxOps == 2

\* joints of the chains built at construction, root first
Layouts ==
  << << <<0, 0>>, <<100, 0>> >>,
     << <<0, 0>>, <<100, 0>>, <<150, 0>> >>,
     << <<0, 0>>, <<60, 80>>, <<110, 80>> >>,
     << <<0, 0>>, <<50, 0>>, <<100, 0>>, <<150, 0>> >>,
     << <<0, 0>>, <<10, 0>>, <<20, 0>> >>,
     << <<10, 20>>, <<70, 100>>, <<120, 100>> >> >>

\* rotational limits (lower, upper) given to every bone of a limited chain
Limits == <<-90, 90>>

\* where the hand is created before it is linked
HandAt == << <<200, 40>>, <<200, 60>> >>

\* where the second hand is created
Hand2At == << <<300, 40>>, <<330, 40>> >>

\* the constructions explored: layout, limited, linked to the hand, solver
Configs ==
  { <<1, FALSE, FALSE, "ccdBasic">>,
    <<1, TRUE, TRUE, "ccdBasic">>,
    <<2, FALSE, TRUE, "ccdBasic">>,
    <<2, FALSE, TRUE, "limbSolver">>,
    <<3, TRUE, TRUE, "limbSolver">>,
    <<3, TRUE, TRUE, "ccdBasic">>,
    <<4, FALSE, FALSE, "ccdBasic">>,
    <<4, TRUE, TRUE, "ccdBasic">> }

\* the two-bone constructions solved by limbSolver alone
LimbConfigs ==
  { <<2, FALSE, TRUE, "limbSolver">>,
    <<5, FALSE, FALSE, "limbSolver">>,
    <<6, FALSE, TRUE, "limbSolver">> }

\* number of solves of one behaviour of the limb specification
MaxSolves == 1

\* end-effector targets of the limb specification: a grid around the root,
\* and a point on the circle of full extension of the shortest chain.
\* (90, 120) is left out: with the chain fully extended towards it the two
\* products isClockwise compares are equal in exact arithmetic, and which is
\* the greater in double arithmetic is decided by rounding
LimbGrid == { 30 * k : k \in -5 .. 5 }

LimbTargets ==
  ((LimbGrid \X LimbGrid) \ { <<90, 120>> }) \cup { <<16, 12>> }

\* end-effector targets of a free solve
Targets == { <<120, 20>>, <<120, 90>>, <<400, 0>>, <<0, -100>> }

\* end-effector targets of a pinned solve
PinnedTargets == { <<120, 20>> }

\* delta angles of rotate and moveAndRotate
DeltaAngles == {90, -30}

\* values assigned to orientation
Orientations == {90, -135}

\* destinations of move and moveAndRotate
MoveTo == { <<10, 20>> }

RECURSIVE BuildBones(_, _, _)
BuildBones(layout, k, limited) ==
  IF k = 1 THEN << >>
  ELSE LET bs == addBoneAt(BuildBones(layout, k - 1, limited),
                           layout[k - 1][1], layout[k - 1][2], layout[k][1], layout[k][2])
           b  == bs[Len(bs)]
       IN  IF limited
           THEN [bs EXCEPT ![Len(bs)] = setUpperLimit(setLowerLimit(b, Limits[1]), Limits[2])]
           ELSE bs

\* the world after construction: the chain, the hand chain and, when linked,
\* Chain.link(hand, true)
Build(layout, limited, linked) ==
  LET w == [bones |-> BuildBones(layout, Len(layout), limited),
            hand |-> addBoneAt(<< >>, HandAt[1][1], HandAt[1][2], HandAt[2][1], HandAt[2][2])[1],
            hand2 |-> addBoneAt(<< >>, Hand2At[1][1], Hand2At[1][2],
                                Hand2At[2][1], Hand2At[2][2])[1],
            forward |-> << >>, linkedTo |-> "none", finals |-> 0]
  IN  IF linked THEN link(w, "hand", TRUE) ELSE w

NoOp ==
  [op |-> "init", i |-> 0, x |-> 0, y |-> 0, a |-> 0, isPinned |-> FALSE,
   c |-> "none", orient |-> FALSE,
   resolved |-> FALSE, branch |-> "none", limit |-> FALSE, theta1 |-> 0, theta2 |-> 0,
   cycles |-> 0, error |-> 0]

\* the connectors built: a root (Pelvis or SimpleSpine) and three
\* connectors that may be linked to its terminators
Kids ==
  [left |-> setUpperLimit(setLowerLimit(SimpleSpine(200, 0, 40, 20), -30), 30),
   middle |-> setUpperLimit(setLowerLimit(Pelvis(200, 100, 40, 20), -60), 60),
   right |-> SimpleSpine(300, 0, 20, 20)]

Unlinked == { [root |-> Pelvis(0, 0, 100, 60), kids |-> Kids],
              [root |-> SimpleSpine(0, 0, 100, 60), kids |-> Kids] }

Skeletons ==
  Unlinked
    \cup { connectorLink(connectorLink(sk, "left", "L"), "right", "R") : sk \in Unlinked }
    \cup { connectorLink(sk, "middle", "M") : sk \in Unlinked }

\* no FK call in progress
Idle == [state |-> "idle", node |-> "none", op |-> "none", x |-> 0, y |-> 0, a |-> 0,
         depth |-> 0]

\* the chain and its linked chains after construction
InitChain(C) ==
  \E c \in C :
    /\ LET w == Build(Layouts[c[1]], c[2], c[3])
       IN  /\ bones = w.bones
           /\ hand = w.hand
           /\ hand2 = w.hand2
           /\ finals = w.finals
           /\ forward = w.forward
           /\ linkedTo = w.linkedTo
           /\ pre = w
    /\ ikSolver = c[4]
    /\ last = NoOp
    /\ ops = 0

InitOn(C) ==
  /\ InitChain(C)
  /\ wiring = NewWiring
  /\ conn = [root |-> Pelvis(0, 0, 100, 60), kids |-> Kids]
  /\ call = Idle

Init == InitOn(Configs)

\* the state after an operation that leaves the world w
Step(w, l) ==
  /\ ops < MaxOps
  /\ bones' = w.bones
  /\ hand' = w.hand
  /\ hand2' = w.hand2
  /\ finals' = w.finals
  /\ forward' = w.forward
  /\ linkedTo' = w.linkedTo
  /\ pre' = World
  /\ last' = l
  /\ ops' = ops + 1
  /\ UNCHANGED <<ikSolver, wiring, conn, call>>

\* Chain.move
ChainMove ==
  \E to \in MoveTo :
    Step(fkMoveInitial(World, 1, to[1], to[2]),
         [NoOp EXCEPT !.op = "Chain.move", !.x = to[1], !.y = to[2]])

\* Chain.rotate
ChainRotate ==
  \E dA \in DeltaAngles :
    Step(fkRotate(World, 1, dA), [NoOp EXCEPT !.op = "Chain.rotate", !.a = dA])

\* Chain.moveAndRotate
ChainMoveAndRotate ==
  \E to \in MoveTo, dA \in DeltaAngles :
    Step(fkMoveAndRotate(World, 1, to[1], to[2], dA, Cos(dA), Sin(dA)),
         [NoOp EXCEPT !.op = "Chain.moveAndRotate", !.x = to[1], !.y = to[2], !.a = dA])

\* Bone.rotate on a member bone
BoneRotate ==
  \E i \in 1 .. Len(bones), dA \in DeltaAngles :
    Step(fkRotate(World, i, dA), [NoOp EXCEPT !.op = "Bone.rotate", !.i = i, !.a = dA])

\* Bone.orientation = rad on a member bone
SetOrientation ==
  \E i \in 1 .. Len(bones), rad \in Orientations :
    Step(fkSetOrientation(World, i, rad),
         [NoOp EXCEPT !.op = "Bone.orientation", !.i = i, !.a = rad])

\* the state after a solve for the target t that returned r
Solved(r, t, isPinned) ==
  Step(r.w,
       [NoOp EXCEPT !.op = "Chain.moveEndEffector", !.x = t[1], !.y = t[2],
                    !.isPinned = isPinned, !.resolved = r.resolved,
                    !.branch = r.branch, !.limit = r.limit,
                    !.theta1 = r.theta1, !.theta2 = r.theta2,
                    !.cycles = r.cycles, !.error = r.error])

\* Chain.moveEndEffector(toX, toY, isPinned) with the target drawn from T
Solve(T, isPinned) ==
  \E t \in T :
    Solved(moveEndEffector(World, ikSolver, t[1], t[2], isPinned), t, isPinned)

\* Chain.moveEndEffector on a chain that is not pinned
MoveEndEffector == Solve(Targets, FALSE)

\* Chain.moveEndEffector on a pinned chain
MoveEndEffectorPinned == Solve(PinnedTargets, TRUE)

\* Chain.moveEndEffector of a free two-bone chain whose solver is limbSolver
LimbSolve == ops < MaxSolves /\ Solve(LimbTargets, FALSE)

Next ==
  \/ ChainMove
  \/ ChainRotate
  \/ ChainMoveAndRotate
  \/ BoneRotate
  \/ SetOrientation
  \/ MoveEndEffector
  \/ MoveEndEffectorPinned

Spec == Init /\ [][Next]_vars

InitLimb == InitOn(LimbConfigs)

SpecLimb == InitLimb /\ [][LimbSolve]_vars

\* destinations of Bone.move on a member bone
BoneMoveTo == { <<10, 20>>, <<-40, 0>>, <<0, 50>> }

\* Bone.move(toX, toY) on a member bone: Bone.moveInitial
BoneMove ==
  \E i \in 1 .. Len(bones), to \in BoneMoveTo :
    Step(fkMoveInitial(World, i, to[1], to[2]),
         [NoOp EXCEPT !.op = "Bone.move", !.i = i, !.x = to[1], !.y = to[2]])

SpecBoneMove == Init /\ [][BoneMove]_vars

\* the constructions to which further chains are linked
LinkConfigs ==
  { <<1, FALSE, FALSE, "ccdBasic">>,
    <<2, FALSE, TRUE, "ccdBasic">>,
    <<3, TRUE, TRUE, "ccdBasic">>,
    <<4, FALSE, FALSE, "ccdBasic">> }

\* Chain.link(c, orient)
ChainLink ==
  \E c \in {"hand", "hand2"}, orient \in BOOLEAN :
    Step(link(World, c, orient),
         [NoOp EXCEPT !.op = "Chain.link", !.c = c, !.orient = orient])

InitLink == InitOn(LinkConfigs)

NextLink ==
  \/ ChainLink
  \/ ChainMove
  \/ ChainRotate
  \/ ChainMoveAndRotate
  \/ BoneRotate

SpecLink == InitLink /\ [][NextLink]_vars

\* the limits and candidate orientations handed to __isInLimit
LimitAngles == { 30 * k : k \in 0 .. 11 }

\* Bone.__isInLimit(lower, upper, child), called on its own
IsInLimit ==
  \E lower \in LimitAngles, upper \in LimitAngles, child \in LimitAngles :
    /\ last' = [NoOp EXCEPT !.op = "Bone.__isInLimit", !.x = lower, !.y = upper,
                            !.a = child,
                            !.resolved = isInLimit(lower, upper, child)]
    /\ UNCHANGED <<worldVars, wiring, conn, call>>

InitInLimit == InitOn({ <<1, FALSE, FALSE, "ccdBasic">> })

SpecInLimit == InitInLimit /\ [][IsInLimit]_vars

\* number of bones constructed for a wiring
MaxMade == 6

\* Chain.addBone(new Bone(g))
AddBone ==
  /\ Len(wiring.heap) < MaxMade
  /\ wiring' = addBone(wiring)
  /\ last' = [NoOp EXCEPT !.op = "Chain.addBone"]
  /\ UNCHANGED <<worldVars, conn, call>>

\* Chain.createBone(g)
CreateBone ==
  /\ Len(wiring.heap) < MaxMade
  /\ wiring' = createBone(wiring)
  /\ last' = [NoOp EXCEPT !.op = "Chain.createBone"]
  /\ UNCHANGED <<worldVars, conn, call>>

\* Chain.pop() leaving at least one bone
Pop ==
  /\ wiring.count >= 2
  /\ wiring' = pop(wiring)
  /\ last' = [NoOp EXCEPT !.op = "Chain.pop"]
  /\ UNCHANGED <<worldVars, conn, call>>

\* Chain.link(n) on a chain that has a bone
WireLink ==
  /\ wiring.count >= 1
  /\ \E n \in {"hand", "hand2"} :
       /\ wiring' = wireLink(wiring, n)
       /\ last' = [NoOp EXCEPT !.op = "Chain.link", !.c = n]
  /\ UNCHANGED <<worldVars, conn, call>>

NextWiring == AddBone \/ CreateBone \/ Pop \/ WireLink

SpecWiring == InitInLimit /\ [][NextWiring]_vars

\* arguments of a mutator of which at least one is NaN: coordinates, and
\* coordinates with a delta angle
NaNPoints == { <<NaN, 20>>, <<10, NaN>>, <<NaN, NaN>> }

NaNMoves == { <<NaN, 20, 90>>, <<10, 20, NaN>>, <<NaN, NaN, NaN>> }

\* the state after a mutator called with a NaN left the world w
NaNStep(w, l) ==
  /\ last.op = "init"
  /\ Step(w, l)

\* Bone.setInitial(cX, cY) on a member bone
NaNSetInitial ==
  \E i \in 1 .. Len(bones), p \in NaNPoints :
    NaNStep([World EXCEPT !.bones[i] = nfSetInitial(bones[i], p[1], p[2], TRUE)],
            [NoOp EXCEPT !.op = "Bone.setInitial", !.i = i, !.x = p[1], !.y = p[2]])

\* Bone.setTerminal(cX, cY) on a member bone
NaNSetTerminal ==
  \E i \in 1 .. Len(bones), p \in NaNPoints :
    NaNStep([World EXCEPT !.bones[i] = nfSetTerminal(bones[i], p[1], p[2])],
            [NoOp EXCEPT !.op = "Bone.setTerminal", !.i = i, !.x = p[1], !.y = p[2]])

\* Chain.move(toX, toY): Bone.move on the root bone
NaNMove ==
  \E p \in NaNPoints :
    NaNStep(nfFkMoveInitial(World, 1, p[1], p[2]),
            [NoOp EXCEPT !.op = "Chain.move", !.x = p[1], !.y = p[2]])

\* Bone.rotate(NaN) on a member bone
NaNRotate ==
  \E i \in 1 .. Len(bones) :
    NaNStep(nfFkRotate(World, i, NaN),
            [NoOp EXCEPT !.op = "Bone.rotate", !.i = i, !.a = NaN])

\* Chain.moveAndRotate(toX, toY, deltaAngle)
NaNMoveAndRotate ==
  \E m \in NaNMoves :
    NaNStep(nfFkMoveAndRotate(World, 1, m[1], m[2], m[3], fCos(m[3]), fSin(m[3])),
            [NoOp EXCEPT !.op = "Chain.moveAndRotate", !.x = m[1], !.y = m[2],
                         !.a = m[3]])

\* Bone.orientation = NaN on a member bone
NaNSetOrientation ==
  \E i \in 1 .. Len(bones) :
    NaNStep(nfFkSetOrientation(World, i, NaN),
            [NoOp EXCEPT !.op = "Bone.orientation", !.i = i, !.a = NaN])

NextNaN ==
  \/ NaNSetInitial
  \/ NaNSetTerminal
  \/ NaNMove
  \/ NaNRotate
  \/ NaNMoveAndRotate
  \/ NaNSetOrientation

SpecNaN == Init /\ [][NextNaN]_vars

\* destinations and delta angles of the connector operations
ConnectorTo == { <<10, 20>>, <<-30, 40>> }

ConnectorAngles == {90, -30}

\* the state after a connector operation that leaves the skeleton sk
ConnectorStep(sk, l) ==
  /\ ops < MaxOps
  /\ conn' = sk
  /\ last' = l
  /\ ops' = ops + 1
  /\ UNCHANGED <<bones, hand, hand2, finals, forward, linkedTo, ikSolver, pre, wiring,
                 call>>

\* Connector.move(toX, toY)
ConnectorMove ==
  \E to \in ConnectorTo :
    ConnectorStep(fkConnectorMove(conn, to[1], to[2]),
                  [NoOp EXCEPT !.op = "Connector.move", !.x = to[1], !.y = to[2]])

\* Connector.moveAndRotate(toX, toY, deltaAngle)
ConnectorMoveAndRotate ==
  \E to \in ConnectorTo, dA \in ConnectorAngles :
    ConnectorStep(fkConnectorMoveAndRotate(conn, to[1], to[2], dA),
                  [NoOp EXCEPT !.op = "Connector.moveAndRotate", !.x = to[1],
                               !.y = to[2], !.a = dA])

\* Connector.offsetOrientation(deltaAngle) on the root or on a child
ConnectorOffsetOrientation ==
  \E c \in {"root", "left", "middle", "right"}, dA \in ConnectorAngles :
    ConnectorStep(fkOffsetOrientation(conn, c, dA),
                  [NoOp EXCEPT !.op = "Connector.offsetOrientation", !.c = c, !.a = dA])

InitConnector ==
  /\ InitChain({ <<1, FALSE, FALSE, "ccdBasic">> })
  /\ wiring = NewWiring
  /\ conn \in Skeletons
  /\ call = Idle

NextConnector == ConnectorMove \/ ConnectorMoveAndRotate \/ ConnectorOffsetOrientation

SpecConnector == InitConnector /\ [][NextConnector]_vars

\* FK between a connector and a chain linked to one of its terminators, one
\* call per step.  The call stack holds MaxStack frames; a call made with the
\* stack full throws (RangeError) and the operation does not return.
MaxStack == 6

\* a call made from depth d
Called(node, op, x, y, a, d) ==
  IF d >= MaxStack THEN [Idle EXCEPT !.state = "overflow", !.depth = d]
  ELSE [state |-> "running", node |-> node, op |-> op, x |-> x, y |-> y, a |-> a,
        depth |-> d + 1]

\* the user calls move or moveAndRotate on the connector or on the chain
FKStart ==
  /\ call.state = "idle"
  /\ ops < MaxOps
  /\ \E node \in {"connector", "chain"}, op \in {"move", "moveAndRotate"},
        to \in ConnectorTo, dA \in ConnectorAngles :
        call' = Called(node, op, to[1], to[2], IF op = "move" THEN 0 ELSE dA, 0)
  /\ ops' = ops + 1
  /\ UNCHANGED <<bones, hand, hand2, finals, forward, linkedTo, ikSolver, pre, wiring,
                 conn, last>>

\* Connector.move / moveAndRotate runs: its own fields, then the call on the
\* chain linked to a terminator, if any
FKConnector ==
  /\ call.state = "running"
  /\ call.node = "connector"
  /\ conn' = [conn EXCEPT !.root = connectorFK(conn.root, call.op, call.x, call.y, call.a)]
  /\ call' = IF chainTerminator(conn'.root) = <<>> THEN Idle
             ELSE Called("chain", call.op, chainTerminator(conn'.root)[1],
                         chainTerminator(conn'.root)[2], call.a, call.depth)
  /\ UNCHANGED <<bones, hand, hand2, finals, forward, linkedTo, ikSolver, pre, wiring,
                 ops, last>>

\* Chain.move / moveAndRotate runs: every bone from the root on, then the
\* terminal bone's call on its _linkedTo, if any
FKChain ==
  /\ call.state = "running"
  /\ call.node = "chain"
  /\ bones' = chainFK(World, call.op, call.x, call.y, call.a).bones
  /\ finals' = finals + 1
  /\ call' = IF bones[Len(bones)].linkedTo = "none" THEN Idle
             ELSE Called("connector", call.op, bones'[Len(bones)].x1,
                         bones'[Len(bones)].y1, call.a, call.depth)
  /\ UNCHANGED <<hand, hand2, forward, linkedTo, ikSolver, pre, wiring, ops, last, conn>>

\* the state after construction of the skeleton s, a chain s.w and a
\* connector s.root
InitFKOn(s) ==
  /\ bones = s.w.bones
  /\ hand = s.w.hand
  /\ hand2 = s.w.hand2
  /\ finals = s.w.finals
  /\ forward = s.w.forward
  /\ linkedTo = s.w.linkedTo
  /\ pre = s.w
  /\ conn = [root |-> s.root, kids |-> Kids]
  /\ ikSolver = "ccdBasic"
  /\ last = NoOp
  /\ ops = 0
  /\ wiring = NewWiring
  /\ call = Idle

\* the skeletons of this specification: a Pelvis or a SimpleSpine and a chain,
\* apart or with the chain linked to a terminator
InitFK ==
  \E k \in {Pelvis(0, 0, 100, 60), SimpleSpine(0, 0, 100, 60)}, c \in {1, 2},
     t \in {"none", "L", "M", "R"} :
    InitFKOn(IF t = "none" THEN [w |-> Build(Layouts[c], FALSE, FALSE), root |-> k]
             ELSE connectorLinkChain(k, Build(Layouts[c], FALSE, FALSE), t))

NextFK == FKStart \/ FKConnector \/ FKChain

SpecFK == InitFK /\ [][NextFK]_vars /\ WF_vars(NextFK)

\* Bone.draw() on a member bone
BoneDraw ==
  \E i \in 1 .. Len(bones), renderable \in BOOLEAN, drawType \in {"standard", "custom"},
     skinType \in {"none", "spline_bone"}, skinOnly \in BOOLEAN :
    Step([World EXCEPT !.bones[i] = draw(bones[i], renderable, drawType, skinType,
                                         skinOnly)],
         [NoOp EXCEPT !.op = "Bone.draw", !.i = i, !.c = drawType, !.branch = skinType,
                      !.orient = skinOnly, !.limit = renderable])

\* where setTerminal puts a terminal joint
TerminalTo == { <<30, 40>>, <<-50, 0>>, <<0, 60>> }

\* Bone.setTerminal(cX, cY) on a member bone
BoneSetTerminal ==
  \E i \in 1 .. Len(bones), p \in TerminalTo :
    Step([World EXCEPT !.bones[i] = setTerminal(bones[i], p[1], p[2])],
         [NoOp EXCEPT !.op = "Bone.setTerminal", !.i = i, !.x = p[1], !.y = p[2]])

NextDraw == BoneDraw \/ BoneSetTerminal \/ ChainRotate

SpecDraw == Init /\ [][NextDraw]_vars

\* ------------------------------------------------------------------------
\* Properties
\* ------------------------------------------------------------------------

Dist(b) == Sqrt(DistSq(b.x0, b.y0, b.x1, b.y1))

\* rounding allowed on a length, in pixels
LenTol == 2

\* C2: length preservation.  A move, a rotation or an orientation assignment,
\* with its propagation, leaves the distance between the joints of every bone
\* what it was before the operation, and leaves the bone's length unchanged.
LengthPreserved ==
  last.op \in {"Chain.move", "Chain.rotate", "Chain.moveAndRotate", "Bone.rotate",
               "Bone.orientation"} =>
    \A i \in 1 .. Len(bones) :
      /\ Abs(Dist(bones[i]) - Dist(pre.bones[i])) <= LenTol
      /\ Abs(bones[i].length - pre.bones[i].length) <= LenTol

\* a free solve by ccdBasic has just returned
FreeCcdSolve ==
  last.op = "Chain.moveEndEffector" /\ ~last.isPinned /\ ikSolver = "ccdBasic"

\* C4: a free ccdBasic solve returns true exactly when the squared distance
\* between the chain terminal and the target at its last convergence check is
\* at most stop; with the cycle budget spent and the distance still above stop
\* it returns false.
CcdResultIsConvergence ==
  FreeCcdSolve => (last.resolved <=> last.error <= stop)

\* rounding allowed on a position, in pixels
PosTol == 3

\* C5: a free Chain.moveEndEffector(toX, toY) returns true only if the chain's
\* terminal point is at (toX, toY) on return, with either solver.
ResolvedMeansAtTarget ==
  (last.op = "Chain.moveEndEffector" /\ ~last.isPinned /\ last.resolved) =>
    DistSq(terminalX(World), terminalY(World), last.x, last.y) <= PosTol * PosTol

\* C8: a pinned ccdBasic solve returns false and leaves every bone of the
\* chain, and the chain's links, as they were before the call.
PinnedCcdIsNoOp ==
  (last.op = "Chain.moveEndEffector" /\ last.isPinned /\ ikSolver = "ccdBasic") =>
    /\ ~last.resolved
    /\ bones = pre.bones
    /\ forward = pre.forward /\ linkedTo = pre.linkedTo

\* a pinned ccdBasic solve of a three-bone chain that an earlier operation has
\* taken away from the target
PinnedCcdWitness ==
  /\ last.op = "Chain.moveEndEffector" /\ last.isPinned /\ ikSolver = "ccdBasic"
  /\ ops = 2 /\ Len(bones) = 3
  /\ DistSq(terminalX(World), terminalY(World), last.x, last.y) > stop

\* C9: a free solve through Chain.moveEndEffector never moves the initial
\* joint of the root bone, whatever the target, the chain size and the result.
RootFixedUnderIK ==
  (last.op = "Chain.moveEndEffector" /\ ~last.isPinned) =>
    bones[1].x0 = pre.bones[1].x0 /\ bones[1].y0 = pre.bones[1].y0

\* a free solve that an earlier move of the chain precedes and that turned
\* the root bone
RootFixedWitness ==
  /\ last.op = "Chain.moveEndEffector" /\ ~last.isPinned
  /\ ops = 2 /\ Len(bones) >= 2
  /\ <<bones[1].x0, bones[1].y0>> # <<0, 0>>
  /\ <<bones[1].x1, bones[1].y1>> # <<pre.bones[1].x1, pre.bones[1].y1>>

\* a solve by limbSolver has just returned
LimbSolved == last.op = "Chain.moveEndEffector" /\ ikSolver = "limbSolver"

\* C3: limbSolver, target within reach.  When the distance d of the target
\* from the root satisfies |l1 - l2| <= d <= l1 + l2 (the "ok" branch) and the
\* closed-form angles are within the limits (theta1 not clamped, theta2 in
\* [lower1, upper1]), the solver returns true and the terminal joint of the
\* second bone is at the target.
LimbReachableSolved ==
  (/\ LimbSolved /\ last.branch = "ok"
   /\ ~last.limit
   /\ last.theta2 >= lower1 /\ last.theta2 <= upper1) =>
    /\ last.resolved
    /\ DistSq(terminalX(World), terminalY(World), last.x, last.y) <= PosTol * PosTol

\* C6: limbSolver returns false when the target passes d^2 <= (l1 + l2)^2 but
\* cos(theta2) falls outside [-1, 1] (the "near" branch).
LimbNearReturnsFalse ==
  (LimbSolved /\ last.branch = "near") => ~last.resolved

\* atan2 of the target seen from the root of the chain before the solve
TargetAngle == Atan2(last.y - initY(pre), last.x - initX(pre))

\* the point at distance l from the root of the chain in direction a
FromRoot(l, a) == <<initX(pre) + MulT(l, Cos(a)), initY(pre) + MulT(l, Sin(a))>>

\* C7: limbSolver, target out of reach (d^2 > (l1 + l2)^2, the "far" branch).
\* The solver returns false, the first bone is oriented at atan2(dy, dx)
\* clamped to [lower0, upper0], the second bone starts at the terminal joint of
\* the first, and when the first bone was not clamped the second bone is
\* collinear with it.
LimbUnreachablePose ==
  (LimbSolved /\ last.branch = "far") =>
    LET a  == Min(Max(TargetAngle, lower0), upper0)
        l1 == pre.bones[1].length
        l2 == pre.bones[2].length
        e1 == FromRoot(l1, a)
        e2 == FromRoot(l1 + l2, a)
    IN  /\ ~last.resolved
        /\ bones[1].angle = a
        /\ bones[1].x0 = initX(pre) /\ bones[1].y0 = initY(pre)
        /\ DistSq(bones[1].x1, bones[1].y1, e1[1], e1[2]) <= PosTol * PosTol
        /\ bones[2].x0 = bones[1].x1 /\ bones[2].y0 = bones[1].y1
        /\ (TargetAngle >= lower0 /\ TargetAngle <= upper0) =>
             /\ bones[2].angle = a
             /\ DistSq(bones[2].x1, bones[2].y1, e2[1], e2[2]) <= PosTol * PosTol

\* an out-of-reach solve that turned the first bone of a chain whose root is
\* not the origin, without a clamp
LimbUnreachableWitness ==
  /\ LimbSolved /\ last.branch = "far" /\ ~last.limit
  /\ initX(pre) # 0
  /\ bones[1].angle # pre.bones[1].angle /\ bones[1].angle # 0

\* an out-of-reach solve that clamped the first bone
LimbClampedWitness ==
  LimbSolved /\ last.branch = "far" /\ last.limit

\* the orientation of bone i relative to its parent's, in (-PI, PI]
RelativeOrientation(w, i) ==
  LET r == (orientation(w.bones[i]) - parentOrientation(w, i)) % TWO_PI
  IN  IF r > PI THEN r - TWO_PI ELSE r

\* bone i is oriented within its limits about its parent's orientation
WithinLimits(w, i) ==
  /\ RelativeOrientation(w, i) >= w.bones[i].lowerLimit
  /\ RelativeOrientation(w, i) <= w.bones[i].upperLimit

\* the last operation applied a rotation to bone i
RotationApplied(i) ==
  \/ last.op \in {"Bone.orientation", "Bone.rotate"} /\ last.i = i
  \/ last.op = "Chain.rotate"
  \/ FreeCcdSolve

\* C10: joint limits are respected.  A bone with limits and a parent that was
\* within its limits is not left outside them by an orientation assignment, a
\* Bone.rotate, a Chain.rotate or a ccdBasic solve.
JointLimitsRespected ==
  \A i \in 1 .. Len(bones) :
    (/\ ~bones[i].unconstrained /\ hasParent(World, i)
     /\ RotationApplied(i)
     /\ WithinLimits(pre, i)) => WithinLimits(World, i)

\* C11: when the orientation setter rejects a value for the joint limits the
\* call changes nothing: the bone's joints, angle, length and FK type, every
\* successor, the linked chains and the count of _onFinal calls are as before
SetterRejected ==
  /\ last.op = "Bone.orientation"
  /\ setterRejects(pre.bones[last.i], last.a, hasParent(pre, last.i),
                   parentOrientation(pre, last.i))

RejectedOrientationIsNoOp == SetterRejected => World = pre

\* a rejected assignment to the terminal bone of a linked chain, which would
\* have fired the callback and moved the linked chain had it been accepted
RejectedOrientationWitness ==
  /\ SetterRejected
  /\ last.i = Len(bones)
  /\ linkedTo = "hand"
  /\ World = pre

\* C12: Bone.orientation reports a value in [0, 2*PI) for every bone of the
\* chain and for the linked chains, after any sequence of operations
Normalized(b) == orientation(b) >= 0 /\ orientation(b) < TWO_PI

OrientationNormalized ==
  /\ \A i \in 1 .. Len(bones) : Normalized(bones[i])
  /\ Normalized(hand)
  /\ Normalized(hand2)

\* C13: for lower, upper and candidate in [0, 2*PI), __isInLimit is true
\* exactly when the candidate lies on the arc running counter-clockwise from
\* lower to upper
OnArc(lower, upper, child) ==
  IF lower <= upper THEN lower <= child /\ child <= upper
  ELSE child >= lower \/ child <= upper

InLimitIsArc ==
  last.op = "Bone.__isInLimit" => (last.resolved <=> OnArc(last.x, last.y, last.a))

\* C14: Bone.move (moveInitial) on a bone that has a predecessor does not
\* translate it: its initial joint stays where it was, at the terminal joint
\* of the predecessor
NonRootMoved == last.op = "Bone.move" /\ last.i > 1

NonRootNotTranslated ==
  NonRootMoved =>
    /\ bones[last.i].x0 = pre.bones[last.i].x0
    /\ bones[last.i].y0 = pre.bones[last.i].y0
    /\ bones[last.i].x0 = bones[last.i - 1].x1
    /\ bones[last.i].y0 = bones[last.i - 1].y1

\* C15: after an FK transform of the chain (Chain.move, Chain.rotate,
\* Chain.moveAndRotate, Bone.rotate) every chain linked forward through
\* Chain.link, each entry of _forward, has its initial point at the chain's
\* terminal point
FKTransformed ==
  last.op \in {"Chain.move", "Chain.rotate", "Chain.moveAndRotate", "Bone.rotate"}

AtTerminal(w, c) ==
  /\ linkedNode(w, c).x0 = terminalX(w)
  /\ linkedNode(w, c).y0 = terminalY(w)

AllLinkedFollow ==
  FKTransformed => \A k \in 1 .. Len(forward) : AtTerminal(World, forward[k])

\* C16: after Chain.moveEndEffector returns, resolved or not, pinned or not,
\* the chain linked forward has its initial point at the chain's terminal
\* point (to within PosTol)
SolvedLinked == last.op = "Chain.moveEndEffector" /\ linkedTo # "none"

LinkedAtTerminalAfterSolve ==
  SolvedLinked =>
    /\ Abs(linkedNode(World, linkedTo).x0 - terminalX(World)) <= PosTol
    /\ Abs(linkedNode(World, linkedTo).y0 - terminalY(World)) <= PosTol

\* C17: Chain.link(c, orient) registers c (Chain._linkedTo, the terminal
\* bone's _linkedTo, c's _linkedFrom), puts c's initial point on the chain's
\* terminal point and, when orient is true, gives c the chain's end
\* orientation modulo 2*PI
Linked == last.op = "Chain.link"

ChainWired ==
  wiring.count >= 1 =>
    /\ \A i \in 1 .. (wiring.count - 1) :
         /\ wiring.heap[wiring.bones[i]].NEXT = wiring.bones[i + 1]
         /\ wiring.heap[wiring.bones[i + 1]].PREV = wiring.bones[i]
    /\ wiring.heap[wiring.bones[wiring.count]].NEXT = NULL
    /\ \A i \in 1 .. wiring.count :
         /\ wiring.heap[wiring.bones[i]].IS_ROOT <=> (i = 1)
         /\ wiring.heap[wiring.bones[i]].IS_END <=> (i = wiring.count)
    /\ wiring.rootBone = wiring.bones[1]
    /\ wiring.terminalBone = wiring.bones[wiring.count]

\* C19: a mutator called with a NaN argument leaves the joints and the angle
\* of every bone as they were and propagates nothing: the successors, the
\* linked chains and the count of _onFinal calls are unchanged
NaNGiven == last.x = NaN \/ last.y = NaN \/ last.a = NaN

SameJoints(b, p) ==
  /\ b.x0 = p.x0
  /\ b.y0 = p.y0
  /\ b.x1 = p.x1
  /\ b.y1 = p.y1
  /\ b.angle = p.angle

NonFiniteRejected ==
  NaNGiven =>
    /\ \A i \in 1 .. Len(bones) : SameJoints(bones[i], pre.bones[i])
    /\ SameJoints(hand, pre.hand)
    /\ SameJoints(hand2, pre.hand2)
    /\ finals = pre.finals

\* C20: Connector.moveAndRotate(toX, toY, deltaAngle) moves the pivot to
\* (toX, toY), leaves the origin and the three terminators at their previous
\* offsets from the pivot rotated by deltaAngle, and passes the same deltaAngle
\* to every linked child.
TurnedAbout(x, y, k, k2, dA) ==
  /\ x = turnX(k.x - k.px, k.y - k.py, Cos(dA), Sin(dA), k2.px)
  /\ y = turnY(k.x - k.px, k.y - k.py, Cos(dA), Sin(dA), k2.py)

ChildTurned(lnk, x, y, dA) ==
  lnk # "none" =>
    /\ conn'.kids[lnk].pivotX = x
    /\ conn'.kids[lnk].pivotY = y
    /\ conn'.kids[lnk].angle = connectorAngle(conn.kids[lnk].angle + dA)

ConnectorTurned(k, k2, toX, toY, dA) ==
  /\ k2.pivotX = toX
  /\ k2.pivotY = toY
  /\ TurnedAbout(k2.x0, k2.y0, [x |-> k.x0, y |-> k.y0, px |-> k.pivotX, py |-> k.pivotY],
                 [px |-> toX, py |-> toY], dA)
  /\ TurnedAbout(k2.leftX, k2.leftY,
                 [x |-> k.leftX, y |-> k.leftY, px |-> k.pivotX, py |-> k.pivotY],
                 [px |-> toX, py |-> toY], dA)
  /\ TurnedAbout(k2.midX, k2.midY,
                 [x |-> k.midX, y |-> k.midY, px |-> k.pivotX, py |-> k.pivotY],
                 [px |-> toX, py |-> toY], dA)
  /\ TurnedAbout(k2.rightX, k2.rightY,
                 [x |-> k.rightX, y |-> k.rightY, px |-> k.pivotX, py |-> k.pivotY],
                 [px |-> toX, py |-> toY], dA)
  /\ ChildTurned(k2.linkLeft, k2.leftX, k2.leftY, dA)
  /\ ChildTurned(k2.linkMiddle, k2.midX, k2.midY, dA)
  /\ ChildTurned(k2.linkRight, k2.rightX, k2.rightY, dA)

ConnectorMoveAndRotateTurnsAll ==
  [][(ops' = ops + 1 /\ last'.op = "Connector.moveAndRotate")
       => ConnectorTurned(conn.root, conn'.root, last'.x, last'.y, last'.a)]_vars

\* C21: Connector.offsetOrientation(deltaAngle) on a connector that has joint
\* limits and is attached to a parent changes nothing when the resulting
\* orientation lies outside [parent.endOrientation + lowerLimit,
\* parent.endOrientation + upperLimit], as the Bone orientation setter does.
Attached(sk, c) ==
  c \in {sk.root.linkLeft, sk.root.linkMiddle, sk.root.linkRight} \ {"none"}

OutsideLimits(k, p0, dA) ==
  /\ ~k.unconstrained
  /\ ~isInLimit(IF p0 + k.lowerLimit > 0 THEN p0 + k.lowerLimit
                ELSE TWO_PI + p0 + k.lowerLimit,
                IF p0 + k.upperLimit <= TWO_PI THEN p0 + k.upperLimit
                ELSE p0 + k.upperLimit - TWO_PI,
                IF k.angle + dA >= 0 THEN k.angle + dA ELSE TWO_PI + k.angle + dA)

OffsetOutsideLimitsIsNoOp ==
  [][(/\ ops' = ops + 1
      /\ last'.op = "Connector.offsetOrientation"
      /\ Attached(conn, last'.c)
      /\ OutsideLimits(conn.kids[last'.c], orientation(conn.root), last'.a))
       => conn' = conn]_vars

\* C22: FK propagation terminates: on every skeleton assembled with
\* Chain.link and Connector.link, a chain linked to a connector terminator
\* included, each move or moveAndRotate call on a chain or a connector visits
\* finitely many nodes and returns.
FKPropagationReturns == (call.state = "running") ~> (call.state = "idle")

\* C23: ccdBasic terminates for every chain size and every target, and has
\* executed at most maxCycles full target-phase + position-phase cycles when
\* it returns.  _cycles counts the cycles started after the first one, so a
\* solve that returns with _cycles = c has executed c + 1 cycles.
CcdWithinCycleBudget == FreeCcdSolve => last.cycles + 1 <= maxCycles

\* C24: IK idempotence.  If Chain.moveEndEffector(x, y) returned true, an
\* immediately following Chain.moveEndEffector(x, y) with the same target
\* returns true and changes no joint of any bone of the chain (here: by more
\* than the rounding PosTol).
NearJoints(b, p) ==
  /\ Abs(b.x0 - p.x0) <= PosTol
  /\ Abs(b.y0 - p.y0) <= PosTol
  /\ Abs(b.x1 - p.x1) <= PosTol
  /\ Abs(b.y1 - p.y1) <= PosTol

SolvedAgain ==
  /\ last.op = "Chain.moveEndEffector"
  /\ last.resolved
  /\ ~last.isPinned
  /\ ops' = ops + 1
  /\ last'.op = "Chain.moveEndEffector"
  /\ ~last'.isPinned
  /\ last'.x = last.x
  /\ last'.y = last.y

SolveIsIdempotent ==
  [][SolvedAgain =>
       /\ last'.resolved
       /\ \A i \in 1 .. Len(bones) : NearJoints(bones'[i], bones[i])]_vars

\* C25: the FK propagation target is exclusive.  When a bone's move, rotate,
\* moveAndRotate or orientation change finishes it propagates to NEXT if
\* present, otherwise to linkedTo if present, and the ON_FINAL callback fires
\* only when the bone has neither: an FK transform of a chain whose terminal
\* bone is linked forward fires no ON_FINAL callback.
FKOnLinkedChain ==
  /\ last.op \in {"Chain.move", "Chain.rotate", "Chain.moveAndRotate", "Bone.rotate",
                  "Bone.orientation"}
  /\ pre.bones[Len(pre.bones)].linkedTo # "none"

FinalOnlyAtFreeEnd == FKOnLinkedChain => finals = pre.finals

\* C26: rotation is propagated as rotation across a forward link.  When the
\* terminal bone of a chain linked forward changes orientation by a delta,
\* through Bone.rotate or an accepted orientation assignment, the linked node
\* is moved to the bone's new terminal and rotated by the same delta.
TurnedAtLink ==
  /\ last.op \in {"Bone.rotate", "Bone.orientation"}
  /\ last.i = Len(bones)
  /\ bones[last.i].linkedTo # "none"
  /\ bones[last.i].angle # pre.bones[last.i].angle

LinkedTurnsWithBone ==
  TurnedAtLink =>
    /\ AtTerminal(World, bones[last.i].linkedTo)
    /\ (linkedNode(World, bones[last.i].linkedTo).angle
          - linkedNode(pre, bones[last.i].linkedTo).angle) % TWO_PI
         = (bones[last.i].angle - pre.bones[last.i].angle) % TWO_PI

\* C27: ccdBasic preserves bone lengths.  After a free ccdBasic solve on a
\* chain of one bone or more, whatever the joint limits of the terminal bone,
\* the distance between the joints of each bone is the length the bone had
\* before the solve (to within LenTol).
CcdKeepsLengths ==
  FreeCcdSolve =>
    \A i \in 1 .. Len(bones) : Abs(Dist(bones[i]) - pre.bones[i].length) <= LenTol

\* C28: Bone.setTerminal(x, y) always takes effect: after any sequence of
\* operations, draw() with either draw type and any skin type included, the
\* call leaves the terminal joint at (x, y) with the length and orientation
\* recomputed.
TerminalSet == last.op = "Bone.setTerminal"

SetTerminalTakesEffect ==
  TerminalSet =>
    /\ bones[last.i].x1 = last.x
    /\ bones[last.i].y1 = last.y
    /\ bones[last.i].length
         = Sqrt(DistSq(last.x, last.y, bones[last.i].x0, bones[last.i].y0))
    /\ bones[last.i].angle
         = Atan2(last.y - bones[last.i].y0, last.x - bones[last.i].x0)

\* rounding allowed on an angle, in degrees
AngTol == 2

\* C29: Bone cache consistency.  After every public operation the cached
\* (_deltaX, _deltaY) of each bone is terminal - initial and the cached _angle
\* is congruent modulo 2*PI to atan2 of that vector (to within AngTol), so that
\* a later rotate turns the bone from the direction it has.
CacheOf(b) ==
  /\ b.deltaX = b.x1 - b.x0
  /\ b.deltaY = b.y1 - b.y0
  /\ \/ (b.angle - Atan2(b.deltaY, b.deltaX)) % TWO_PI <= AngTol
     \/ (b.angle - Atan2(b.deltaY, b.deltaX)) % TWO_PI >= TWO_PI - AngTol

CacheConsistent == \A i \in 1 .. Len(bones) : CacheOf(bones[i])

\* C30: the forward link follows the terminal bone.  Whenever the chain's
\* linkedTo is non-null, after any sequence of link, addBone, createBone and
\* pop, the chain's terminal bone has that node as its linkedTo and no other
\* bone of the chain has a linkedTo.
LinkAtTerminalBone ==
  (wiring.linkedTo # "none" /\ wiring.count >= 1) =>
    \A i \in 1 .. wiring.count :
      wiring.heap[wiring.bones[i]].linkedTo
        = (IF i = wiring.count THEN wiring.linkedTo ELSE "none")

====
